---- MODULE Spec2Model ----
(***************************************************************************)
(* Record deduplication and export of the literature-search pipeline:      *)
(* save_results_to_csv / save_bibtex (scripts/utils/api_utils.py),          *)
(* remove_duplicates (scripts/utils/record_standardisations.py) and the    *)
(* export tail of the get_* functions (getScopus.py, getSpringer.py,        *)
(* getIEEExplore.py, getOpenAlex.py, getDBLP.py); citation keys            *)
(* (clean_bibtex_key), BibTeX entries (paper_to_bibtex) and the title      *)
(* handling of the normalizers (validate_*_paper_entry).                   *)
(***************************************************************************)
EXTENDS Integers, Sequences, FiniteSets, TLC

VARIABLES
    source,        \* which get_* function is running
    save_bibtex_arg, \* the caller's save_bibtex / save_bibtex_format argument
    all_papers,    \* the list handed to the sinks (all_papers / papers)
    pc,            \* position of the running call
    csv_file,      \* content of the CSV file on disk, NoFile when never written
    bib_file,      \* content of the BibTeX file on disk, NoFile when never written
    final_df,      \* the DataFrame save_results_to_csv returned, NoValue before
    raised,        \* the exception the call ended with, NoError when none
    write_failed,  \* whether a filesystem write of this call failed
    df,            \* the DataFrame handed to remove_duplicates
    tfidf,         \* title similarity (hundredths) the vectorizer yields for df
    rd_out,        \* result of remove_duplicates(df), NoValue before
    rd_again,      \* result of remove_duplicates(rd_out), NoValue before
    key_trace,     \* per paper of the last save_bibtex call: key and registry
    bib_again,     \* result of save_bibtex on the same list again, NoValue before
    key_args,      \* the (title, authors, year) clean_bibtex_key is called with
    registry,      \* the existing_keys set clean_bibtex_key is called with
    key_calls,     \* the last calls of clean_bibtex_key: doi, existing_keys, key
    raw_entry,     \* the raw entry handed to a normalizer
    normalized,    \* the paper the normalizer returned, NoValue before
    venue_arg,     \* the venue argument of get_dblp_venue
    processed,     \* per entry of the pages fetched: entry, paper, outcome
    loop           \* locals of the fetch loop and what the run has done so far

\* The variables of the key generator, the BibTeX text and the normalizers.
text_vars == <<key_trace, bib_again, key_args, registry, key_calls, raw_entry,
               normalized, venue_arg, processed, loop>>

vars == <<source, save_bibtex_arg, all_papers, pc, csv_file, bib_file, final_df,
          raised, write_failed, df, tfidf, rd_out, rd_again, key_trace, bib_again,
          key_args, registry, key_calls, raw_entry, normalized, venue_arg,
          processed, loop>>

(***************************************************************************)
(* Bounds of the model.                                                    *)
(***************************************************************************)
MaxPapers == 3

\* Length of the long first word of a title.
LongWordLen == 39

\* Largest number of keys in the registry clean_bibtex_key is called with.
MaxRegistry == 10

\* Largest max_retries argument of a run of a fetch loop.
MaxRetries == 2

\* Largest number of HTTP requests of a run of a fetch loop.
MaxRequests == 5

(***************************************************************************)
(* Python values.  A str is a sequence of characters; None is a value of   *)
(* its own.                                                                *)
(***************************************************************************)
None == [none |-> TRUE, str |-> <<>>]

Str(s) == [none |-> FALSE, str |-> s]

NoFile == [written |-> FALSE]

NoValue == [set |-> FALSE]

NoError == "NoError"

\* No call of save_bibtex, clean_bibtex_key or a normalizer has been made.
TextIdle ==
    /\ key_trace = <<>>
    /\ bib_again = NoValue
    /\ key_args = NoValue
    /\ registry = {}
    /\ key_calls = <<>>
    /\ raw_entry = NoValue
    /\ normalized = NoValue
    /\ venue_arg = NoValue
    /\ processed = <<>>
    /\ loop = NoValue

\* DOI strings of the model: two that differ only by letter case, one other.
DoiUpper == Str(<<"1", "/", "A">>)

DoiLower == Str(<<"1", "/", "a">>)

DoiOther == Str(<<"2", "/", "b">>)

\* The empty string, which some sources send for a missing DOI.
DoiEmpty == Str(<<>>)

DoiValues == {None, DoiEmpty, DoiUpper, DoiLower, DoiOther}

\* Titles.  The dedup code never looks inside a title: it hands the column to
\* TfidfVectorizer.  StopTitle stands for a title that yields no term (only
\* stop words or one-letter words), the others for titles with terms.
StopTitle == Str(<<"t", "h", "e">>)

TitleT1 == Str(<<"T", "1">>)

TitleT2 == Str(<<"T", "2">>)

TitleT3 == Str(<<"T", "3">>)

TermTitles == {TitleT1, TitleT2, TitleT3}

Titles == TermTitles \cup {StopTitle}

\* A normalized paper, as the validate_*_paper_entry functions build it
\* (the fields the dedup and the sinks' record sets depend on).
Paper == [doi : DoiValues, title : Titles]

\* Sequences over S of length at most n.
BoundedSeq(S, n) == UNION {[1..k -> S] : k \in 0..n}

(***************************************************************************)
(* pandas operations used by save_results_to_csv.                          *)
(***************************************************************************)
\* pd.DataFrame(papers): one row per dict, the columns are the dicts' keys;
\* an empty list gives a frame with no column at all.  The index is the
\* RangeIndex 0..n-1, i.e. the position of the row.
DataFrame(papers) ==
    [columns |-> UNION {DOMAIN papers[i] : i \in DOMAIN papers},
     rows    |-> papers]

\* Series.notna() / Series.isna() on a cell.
notna(v) == ~v.none

isna(v) == v.none

\* df[df['doi'].notna()], line 345.
df_with_doi(frame) ==
    [frame EXCEPT !.rows = SelectSeq(frame.rows, LAMBDA r : notna(r.doi))]

\* df[df['doi'].isna()], line 346.
df_without_doi(frame) ==
    [frame EXCEPT !.rows = SelectSeq(frame.rows, LAMBDA r : isna(r.doi))]

\* DataFrame.drop_duplicates(subset='doi'), keep='first': rows are scanned in
\* order, a row is kept when its doi value has not been seen yet.  Values are
\* compared as they are (no case folding).
RECURSIVE drop_duplicates_scan(_, _, _, _)
drop_duplicates_scan(rows, i, seen, kept) ==
    IF i > Len(rows) THEN kept
    ELSE IF rows[i].doi \in seen
         THEN drop_duplicates_scan(rows, i + 1, seen, kept)
         ELSE drop_duplicates_scan(rows, i + 1, seen \cup {rows[i].doi},
                                   Append(kept, rows[i]))

\* drop_duplicates with keep='last' instead of the default keep='first'.
DropDuplicatesKeepLast(frame) ==
    LET rows == frame.rows
        last == SelectSeq([i \in DOMAIN rows |-> [pos |-> i, row |-> rows[i]]],
                          LAMBDA e : \A j \in DOMAIN rows :
                                         j > e.pos => rows[j].doi # e.row.doi)
    IN  [frame EXCEPT !.rows = [k \in DOMAIN last |-> last[k].row]]

drop_duplicates(frame) ==
    [frame EXCEPT !.rows = drop_duplicates_scan(frame.rows, 1, {}, <<>>)]

\* pd.concat([a, b], ignore_index=True): the rows of a, then the rows of b.
concat(a, b) ==
    [columns |-> a.columns \cup b.columns, rows |-> a.rows \o b.rows]

\* DataFrame.to_csv(path, index=False): a header row with the column names,
\* then one data row per row of the frame.
to_csv(frame) ==
    [written |-> TRUE, header |-> frame.columns, rows |-> frame.rows]

\* Deduplicating the whole frame, without setting the rows without DOI aside.
DedupWholeFrame(papers) == drop_duplicates(DataFrame(papers))

\* The frame save_results_to_csv writes and returns, lines 342-352.
DedupByDoi(papers) ==
    LET frame == DataFrame(papers)
    IN  concat(drop_duplicates(df_with_doi(frame)), df_without_doi(frame))

\* save_results_to_csv with a failed write logged and not re-raised.
SaveResultsToCsvSwallowsFailure(papers, ok) ==
    IF "doi" \notin DataFrame(papers).columns
    THEN [raised |-> "APIError", file |-> NoFile, value |-> NoValue,
          write_failed |-> FALSE]
    ELSE [raised |-> NoError,
          file   |-> IF ok THEN to_csv(DedupByDoi(papers)) ELSE NoFile,
          value  |-> [set |-> TRUE, frame |-> DedupByDoi(papers)],
          write_failed |-> ~ok]

\* save_results_to_csv(papers, output_path).  ok: whether the filesystem
\* accepts the write.  Any exception inside the try block (the KeyError of
\* df['doi'] on a frame without that column, a failed write) is re-raised
\* as APIError.
save_results_to_csv(papers, ok) ==
    IF "doi" \notin DataFrame(papers).columns
    THEN [raised |-> "APIError", file |-> NoFile, value |-> NoValue,
          write_failed |-> FALSE]
    ELSE IF ~ok
    THEN [raised |-> "APIError", file |-> NoFile, value |-> NoValue,
          write_failed |-> TRUE]
    ELSE [raised |-> NoError,
          file   |-> to_csv(DedupByDoi(papers)),
          value  |-> [set |-> TRUE, frame |-> DedupByDoi(papers)],
          write_failed |-> FALSE]

(***************************************************************************)
(* Direct calls of save_results_to_csv on any list of papers.              *)
(***************************************************************************)
InitCsv ==
    /\ source = "none"
    /\ save_bibtex_arg = FALSE
    /\ all_papers \in BoundedSeq(Paper, MaxPapers)
    /\ pc = "call"
    /\ csv_file = NoFile
    /\ bib_file = NoFile
    /\ final_df = NoValue
    /\ raised = NoError
    /\ write_failed = FALSE
    /\ df = <<>>
    /\ tfidf = <<>>
    /\ rd_out = NoValue
    /\ rd_again = NoValue
    /\ TextIdle

CallSaveResultsToCsv ==
    /\ pc = "call"
    /\ \E ok \in BOOLEAN :
         LET r == save_results_to_csv(all_papers, ok)
         IN  /\ csv_file' = r.file
             /\ final_df' = r.value
             /\ raised' = r.raised
             /\ write_failed' = r.write_failed
             /\ pc' = IF r.raised = NoError THEN "returned" ELSE "raised"
    /\ UNCHANGED <<source, save_bibtex_arg, all_papers, bib_file, df, tfidf, rd_out,
                   rd_again>>
    /\ UNCHANGED text_vars

NextCsv == CallSaveResultsToCsv

SpecCsv == InitCsv /\ [][NextCsv]_vars

(***************************************************************************)
(* Python strings and values used by clean_bibtex_key, paper_to_bibtex and *)
(* the normalizers.                                                        *)
(***************************************************************************)
\* An int value.
IntValue(n) == [none |-> FALSE, int |-> n]

IsStr(v) == ~v.none /\ "str" \in DOMAIN v

IsInt(v) == ~v.none /\ "int" \in DOMAIN v

IsList(v) == ~v.none /\ "list" \in DOMAIN v

\* A list value (of the raw entries; its items are not looked at).
List(items) == [none |-> FALSE, list |-> items]

\* A dict value; its items are a function from the keys.
Dict(items) == [none |-> FALSE, dict |-> items]

IsDict(v) == ~v.none /\ "dict" \in DOMAIN v

\* bool(v): None, "", 0, [] and {} are false.
Truthy(v) ==
    /\ ~v.none
    /\ IsStr(v) => v.str # <<>>
    /\ IsInt(v) => v.int # 0
    /\ IsList(v) => v.list # <<>>
    /\ IsDict(v) => DOMAIN v.dict # {}

LowerLetters ==
    <<"a", "b", "c", "d", "e", "f", "g", "h", "i", "j", "k", "l", "m",
      "n", "o", "p", "q", "r", "s", "t", "u", "v", "w", "x", "y", "z">>

UpperLetters ==
    <<"A", "B", "C", "D", "E", "F", "G", "H", "I", "J", "K", "L", "M",
      "N", "O", "P", "Q", "R", "S", "T", "U", "V", "W", "X", "Y", "Z">>

Digits == <<"0", "1", "2", "3", "4", "5", "6", "7", "8", "9">>

Whitespace == {" ", "\n", "\t"}

IsLetter(c) ==
    \E i \in DOMAIN LowerLetters : c = LowerLetters[i] \/ c = UpperLetters[i]

IsDigit(c) == \E i \in DOMAIN Digits : c = Digits[i]

\* The class \w of re: letters, digits and the underscore.
IsWordChar(c) == IsLetter(c) \/ IsDigit(c) \/ c = "_"

\* str.lower()
lower(s) ==
    [i \in DOMAIN s |->
        IF \E k \in DOMAIN UpperLetters : s[i] = UpperLetters[k]
        THEN LowerLetters[CHOOSE k \in DOMAIN UpperLetters : s[i] = UpperLetters[k]]
        ELSE s[i]]

\* str.lstrip(chars) / str.rstrip(chars) / str.strip()
RECURSIVE lstrip(_, _)
lstrip(s, chars) ==
    IF s # <<>> /\ Head(s) \in chars THEN lstrip(Tail(s), chars) ELSE s

RECURSIVE rstrip(_, _)
rstrip(s, chars) ==
    IF s # <<>> /\ s[Len(s)] \in chars
    THEN rstrip(SubSeq(s, 1, Len(s) - 1), chars) ELSE s

strip(s) == lstrip(rstrip(s, Whitespace), Whitespace)

\* str.split(): the maximal runs of non-whitespace characters.
RECURSIVE split_scan(_, _, _, _)
split_scan(s, i, word, words) ==
    IF i > Len(s)
    THEN IF word = <<>> THEN words ELSE Append(words, word)
    ELSE IF s[i] \in Whitespace
         THEN split_scan(s, i + 1, <<>>,
                         IF word = <<>> THEN words ELSE Append(words, word))
         ELSE split_scan(s, i + 1, Append(word, s[i]), words)

split(s) == split_scan(s, 1, <<>>, <<>>)

\* re.split(r'[,;]', s): the parts between the separators, empty ones kept.
RECURSIVE re_split_scan(_, _, _, _)
re_split_scan(s, i, part, parts) ==
    IF i > Len(s) THEN Append(parts, part)
    ELSE IF s[i] \in {",", ";"}
         THEN re_split_scan(s, i + 1, <<>>, Append(parts, part))
         ELSE re_split_scan(s, i + 1, Append(part, s[i]), parts)

re_split(s) == re_split_scan(s, 1, <<>>, <<>>)

\* s[:n], also for a negative n.
slice_to(s, n) ==
    IF n >= 0
    THEN SubSeq(s, 1, IF n < Len(s) THEN n ELSE Len(s))
    ELSE SubSeq(s, 1, IF Len(s) + n > 0 THEN Len(s) + n ELSE 0)

\* str(n) for n >= 0.
RECURSIVE str_of_int(_)
str_of_int(n) ==
    IF n < 10 THEN <<Digits[n + 1]>>
    ELSE str_of_int(n \div 10) \o <<Digits[(n % 10) + 1]>>

\* text.find(pattern, start) with 0-based positions, -1 when absent.
find(text, pattern, start) ==
    LET hits == {i \in start..(Len(text) - Len(pattern)) :
                    SubSeq(text, i + 1, i + Len(pattern)) = pattern}
    IN  IF hits = {} THEN -1
        ELSE CHOOSE i \in hits : \A j \in hits : i <= j

\* text.replace(old, new) for a single character old.
RECURSIVE replace(_, _, _)
replace(text, old, new) ==
    IF text = <<>> THEN <<>>
    ELSE (IF Head(text) = old THEN new ELSE <<Head(text)>>)
         \o replace(Tail(text), old, new)

Unknown == <<"u", "n", "k", "n", "o", "w", "n">>

(***************************************************************************)
(* clean_bibtex_key and paper_to_bibtex (api_utils.py).                    *)
(***************************************************************************)
\* The length limit of a key, lines 216, 228 and 232.
MaxKeyLength == 50

\* last_name of lines 190-197.
last_name(authors) ==
    IF Truthy(authors)
    THEN LET author_parts == re_split(strip(authors.str))
             first_author == strip(author_parts[1])
         IN  IF first_author # <<>>
             THEN split(first_author)[Len(split(first_author))]
             ELSE Unknown
    ELSE Unknown

\* first_word of lines 200-209.
first_word(title) ==
    IF Truthy(title)
    THEN LET clean_title == SelectSeq(lower(title.str),
                                      LAMBDA c : IsWordChar(c) \/ c \in Whitespace)
             words == split(clean_title)
         IN  IF words # <<>> THEN words[1] ELSE Unknown
    ELSE Unknown

\* year_part of line 212.
year_part(year) == IF Truthy(year) THEN str_of_int(year.int) ELSE Unknown

\* base_key of lines 213-216.
base_key(title, authors, year) ==
    slice_to(SelectSeq(last_name(authors) \o year_part(year) \o first_word(title),
                       IsWordChar),
             MaxKeyLength)

\* The loop appending the suffix to the whole base key, whatever its length.
RECURSIVE KeyLoopNoTruncation(_, _, _, _)
KeyLoopNoTruncation(base, key, suffix, existing_keys) ==
    IF key \notin existing_keys THEN key
    ELSE KeyLoopNoTruncation(base, base \o str_of_int(suffix), suffix + 1,
                             existing_keys)

\* The while loop of lines 225-234.
RECURSIVE key_loop(_, _, _, _)
key_loop(base, key, suffix, existing_keys) ==
    IF key \notin existing_keys THEN key
    ELSE LET suffix_key == base \o str_of_int(suffix)
             max_base_length == MaxKeyLength - Len(str_of_int(suffix))
         IN  key_loop(base,
                      IF Len(suffix_key) <= MaxKeyLength
                      THEN suffix_key
                      ELSE slice_to(base, max_base_length) \o str_of_int(suffix),
                      suffix + 1, existing_keys)

\* Key generation that tells papers apart by their DOI: the digits and
\* letters of the DOI are put in front of the key.
CleanBibtexKeyWithDoi(title, authors, year, doi, existing_keys) ==
    LET base == slice_to((IF Truthy(doi) THEN SelectSeq(doi.str, IsWordChar)
                          ELSE <<>>) \o base_key(title, authors, year),
                         MaxKeyLength)
    IN  key_loop(base, base, 1, existing_keys)

\* clean_bibtex_key(title, authors, year, doi, existing_keys); doi is not
\* used by the code.
clean_bibtex_key(title, authors, year, doi, existing_keys) ==
    key_loop(base_key(title, authors, year), base_key(title, authors, year), 1,
             existing_keys)

\* dict.get(field) and dict.get(field, default)
Get(d, field) == IF field \in DOMAIN d THEN d[field] ELSE None

GetOr(d, field, default) == IF field \in DOMAIN d THEN d[field] ELSE default

\* str(v) as an f-string formats a value.
py_str(v) == IF IsInt(v) THEN str_of_int(v.int) ELSE v.str

\* What final_df.to_csv(output_path, index=False) writes in a cell: nothing
\* for a missing value (na_rep is ''), str(value) for any other.
csv_cell(v) == IF v.none THEN <<>> ELSE py_str(v)

\* text.replace('{', '\\{').replace('}', '\\}')
escape_braces(text) == replace(replace(text, "{", <<"\\", "{">>), "}", <<"\\", "}">>)

\* f"  name = {{{value}}},\n"
bibtex_field(name, value) ==
    <<" ", " ">> \o name \o <<" ", "=", " ", "{">> \o value \o <<"}", ",", "\n">>

\* "@article{"
ArticleOpen == <<"@", "a", "r", "t", "i", "c", "l", "e", "{">>

\* The cases in which paper_to_bibtex raises: .lower() / .strip() /
\* .replace() of a truthy value that is not a str (AttributeError) and the
\* comparison of a citation count that is not a number with 0 (TypeError).
paper_to_bibtex_raises(paper) ==
    \/ \E f \in {"title", "authors", "publicationName"} :
           Truthy(Get(paper, f)) /\ ~IsStr(Get(paper, f))
    \/ ~IsInt(GetOr(paper, "citedby-count", IntValue(0)))

\* paper_to_bibtex(paper, existing_keys), lines 250-291.
paper_to_bibtex(paper, existing_keys) ==
    LET key == clean_bibtex_key(GetOr(paper, "title", Str(<<>>)),
                                GetOr(paper, "authors", Str(<<>>)),
                                Get(paper, "year"), Get(paper, "doi"),
                                existing_keys)
        start == ArticleOpen \o key \o <<",", "\n">>
        title == IF Truthy(Get(paper, "title"))
                 THEN bibtex_field(<<"t", "i", "t", "l", "e">>, escape_braces(paper["title"].str))
                 ELSE <<>>
        author == IF Truthy(Get(paper, "authors"))
                  THEN bibtex_field(<<"a", "u", "t", "h", "o", "r">>, escape_braces(paper["authors"].str))
                  ELSE <<>>
        year == IF Truthy(Get(paper, "year"))
                THEN bibtex_field(<<"y", "e", "a", "r">>, py_str(paper["year"]))
                ELSE <<>>
        journal == IF Truthy(Get(paper, "publicationName"))
                   THEN bibtex_field(<<"j", "o", "u", "r", "n", "a", "l">>,
                                     escape_braces(paper["publicationName"].str))
                   ELSE <<>>
        doi == IF Truthy(Get(paper, "doi"))
               THEN bibtex_field(<<"d", "o", "i">>, py_str(paper["doi"]))
               ELSE <<>>
        url == IF Truthy(Get(paper, "url"))
               THEN bibtex_field(<<"u", "r", "l">>, py_str(paper["url"]))
               ELSE <<>>
        note == IF GetOr(paper, "citedby-count", IntValue(0)).int > 0
                THEN bibtex_field(<<"n", "o", "t", "e">>,
                                  <<"C", "i", "t", "a", "t", "i", "o", "n", "s", ":", " ">> \o py_str(paper["citedby-count"]))
                ELSE <<>>
        bibtex == start \o title \o author \o year \o journal \o doi \o url \o note
    IN  rstrip(bibtex, {",", "\n"}) \o <<"\n", "}", "\n", "\n">>

(***************************************************************************)
(* save_bibtex: the header comment states len(papers), then one entry is   *)
(* written per paper of the list, in the list's order, and the key found   *)
(* in the entry's text is added to existing_keys.  The file keeps the      *)
(* papers written (entries) and the text of each entry (text); the trace   *)
(* keeps, per paper, the key of line 250 and existing_keys before and      *)
(* after the iteration.  The header's time stamp is left out.              *)
(***************************************************************************)
\* The loop leaving out the papers without a title, the header still
\* stating len(papers).
RECURSIVE SaveBibtexLoopSkipsUntitled(_, _, _, _, _)
SaveBibtexLoopSkipsUntitled(papers, i, existing_keys, text, trace) ==
    LET file == [written |-> TRUE, total |-> Len(papers),
                 entries |-> SubSeq(papers, 1, Len(text)), text |-> text]
    IN  IF i > Len(papers)
        THEN [raised |-> NoError, file |-> file, trace |-> trace]
        ELSE IF ~Truthy(Get(papers[i], "title"))
        THEN SaveBibtexLoopSkipsUntitled(papers, i + 1, existing_keys, text, trace)
        ELSE LET bibtex_entry == paper_to_bibtex(papers[i], existing_keys)
             IN  SaveBibtexLoopSkipsUntitled(papers, i + 1, existing_keys,
                     Append(text, bibtex_entry),
                     Append(trace, [key |-> <<>>, before |-> existing_keys,
                                    after |-> existing_keys]))

\* One iteration of the loop of lines 312-322 and the rest of the loop.
RECURSIVE save_bibtex_loop(_, _, _, _, _)
save_bibtex_loop(papers, i, existing_keys, text, trace) ==
    LET file == [written |-> TRUE, total |-> Len(papers),
                 entries |-> SubSeq(papers, 1, Len(text)), text |-> text]
    IN  IF i > Len(papers)
        THEN [raised |-> NoError, file |-> file, trace |-> trace]
        ELSE IF paper_to_bibtex_raises(papers[i])
        THEN [raised |-> "APIError", file |-> file, trace |-> trace]
        ELSE LET bibtex_entry == paper_to_bibtex(papers[i], existing_keys)
                 key_start == find(bibtex_entry, ArticleOpen, 0) + 9
                 key_end == find(bibtex_entry, <<",">>, key_start)
                 added == IF key_end # -1
                          THEN existing_keys
                                   \cup {SubSeq(bibtex_entry, key_start + 1, key_end)}
                          ELSE existing_keys
             IN  save_bibtex_loop(papers, i + 1, added,
                     Append(text, bibtex_entry),
                     Append(trace,
                            [key |-> clean_bibtex_key(
                                         GetOr(papers[i], "title", Str(<<>>)),
                                         GetOr(papers[i], "authors", Str(<<>>)),
                                         Get(papers[i], "year"),
                                         Get(papers[i], "doi"), existing_keys),
                             before |-> existing_keys, after |-> added]))

\* save_bibtex with the registry kept between the calls: it starts from the
\* keys of the file the earlier call left.
SaveBibtexSharedRegistry(papers, ok) ==
    IF ~ok
    THEN [raised |-> "APIError", file |-> NoFile, trace |-> <<>>]
    ELSE save_bibtex_loop(papers, 1,
             IF bib_file.written
             THEN {SubSeq(bib_file.text[i], 10,
                          find(bib_file.text[i], <<"\n">>, 0)) :
                       i \in DOMAIN bib_file.text}
             ELSE {},
             <<>>, <<>>)

\* save_bibtex failing on an empty list, as save_results_to_csv does.
SaveBibtexRejectsEmpty(papers, ok) ==
    IF ~ok \/ papers = <<>>
    THEN [raised |-> "APIError", file |-> NoFile, trace |-> <<>>]
    ELSE save_bibtex_loop(papers, 1, {}, <<>>, <<>>)

\* save_bibtex(papers, output_path); ok is whether the file can be opened.
save_bibtex(papers, ok) ==
    IF ~ok
    THEN [raised |-> "APIError", file |-> NoFile, trace |-> <<>>]
    ELSE save_bibtex_loop(papers, 1, {}, <<>>, <<>>)

(***************************************************************************)
(* One run of a get_* function, from the accumulation of all_papers to the *)
(* export.                                                                 *)
(***************************************************************************)
Sources == {"scopus", "springer", "ieee", "openalex", "dblp"}

\* The error class each get_* function raises when the export fails.
SourceError(src) ==
    CASE src = "scopus"   -> "ScopusAPIError"
      [] src = "springer" -> "SpringerAPIError"
      [] src = "ieee"     -> "IEEEXploreAPIError"
      [] src = "openalex" -> "OpenAlexAPIError"
      [] src = "dblp"     -> "DBLPAPIError"

\* Inside get_scopus, get_springer, get_ieee_xplore and get_openalex the
\* name save_bibtex is the boolean parameter, which hides the imported
\* function; get_dblp_venue names its parameter save_bibtex_format.
SaveBibtexIsTheFlag(src) == src # "dblp"

\* The fetch loop of the source can end without an exception: the loop over
\* the years of get_dblp_venue ends and its paging loop breaks on done; the
\* while True of the other sources holds no break of its own (each break
\* leaves the retry loop only) and no return.
leaves_fetch_loop(src) == src = "dblp"

\* The papers a run may accumulate in this model.
RunPaper == [doi : {None, DoiUpper, DoiLower}, title : {TitleT1, TitleT2}]

Init ==
    /\ source \in Sources
    /\ save_bibtex_arg \in BOOLEAN
    /\ all_papers = <<>>
    /\ pc = "fetch"
    /\ csv_file = NoFile
    /\ bib_file = NoFile
    /\ final_df = NoValue
    /\ raised = NoError
    /\ write_failed = FALSE
    /\ df = <<>>
    /\ tfidf = <<>>
    /\ rd_out = NoValue
    /\ rd_again = NoValue
    /\ TextIdle

\* all_papers.append(paper) for a validated, non-empty paper.
AppendPaper ==
    /\ pc = "fetch"
    /\ Len(all_papers) < MaxPapers
    /\ \E p \in RunPaper : all_papers' = Append(all_papers, p)
    /\ UNCHANGED <<source, save_bibtex_arg, pc, csv_file, bib_file, final_df, raised,
                   write_failed, df, tfidf, rd_out, rd_again>>
    /\ UNCHANGED text_vars

\* The fetch loop has ended with nothing collected: return pd.DataFrame().
ReturnEmpty ==
    /\ pc = "fetch"
    /\ leaves_fetch_loop(source)
    /\ all_papers = <<>>
    /\ final_df' = [set |-> TRUE, frame |-> DataFrame(<<>>)]
    /\ pc' = "returned"
    /\ UNCHANGED <<source, save_bibtex_arg, all_papers, csv_file, bib_file, raised,
                   write_failed, df, tfidf, rd_out, rd_again>>
    /\ UNCHANGED text_vars

\* The export with the deduplication done on the list itself: all_papers
\* becomes the rows that were written.
ExportCsvInPlace ==
    /\ pc = "fetch"
    /\ leaves_fetch_loop(source)
    /\ all_papers # <<>>
    /\ \E ok \in BOOLEAN :
         LET r == save_results_to_csv(all_papers, ok)
         IN  /\ csv_file' = r.file
             /\ final_df' = r.value
             /\ write_failed' = r.write_failed
             /\ raised' = IF r.raised = NoError THEN NoError ELSE SourceError(source)
             /\ pc' = IF r.raised = NoError THEN "bibtex" ELSE "raised"
             /\ all_papers' = IF r.raised = NoError THEN r.file.rows ELSE all_papers
    /\ UNCHANGED <<source, save_bibtex_arg, bib_file, df, tfidf, rd_out, rd_again>>
    /\ UNCHANGED text_vars

\* The fetch loop has ended: final_df = save_results_to_csv(all_papers, csv_path).
\* An exception is re-raised as the source's API error.
ExportCsv ==
    /\ pc = "fetch"
    /\ leaves_fetch_loop(source)
    /\ all_papers # <<>>
    /\ \E ok \in BOOLEAN :
         LET r == save_results_to_csv(all_papers, ok)
         IN  /\ csv_file' = r.file
             /\ final_df' = r.value
             /\ write_failed' = r.write_failed
             /\ raised' = IF r.raised = NoError THEN NoError ELSE SourceError(source)
             /\ pc' = IF r.raised = NoError THEN "bibtex" ELSE "raised"
    /\ UNCHANGED <<source, save_bibtex_arg, all_papers, bib_file, df, tfidf, rd_out,
                   rd_again>>
    /\ UNCHANGED text_vars

\* if save_bibtex: save_bibtex(all_papers, bibtex_path), then return final_df.
\* Where save_bibtex is the boolean parameter the call raises TypeError,
\* re-raised as the source's API error; in get_dblp_venue it is the function.
ExportBibtex ==
    /\ pc = "bibtex"
    /\ save_bibtex_arg
    /\ IF SaveBibtexIsTheFlag(source)
       THEN /\ raised' = SourceError(source)
            /\ pc' = "raised"
            /\ UNCHANGED <<bib_file, write_failed>>
       ELSE \E ok \in BOOLEAN :
                LET r == save_bibtex(all_papers, ok)
                IN  /\ bib_file' = r.file
                    /\ write_failed' = ~ok
                    /\ raised' = IF r.raised = NoError THEN NoError
                                  ELSE SourceError(source)
                    /\ pc' = IF r.raised = NoError THEN "returned" ELSE "raised"
    /\ UNCHANGED <<source, save_bibtex_arg, all_papers, csv_file, final_df, df, tfidf,
                   rd_out, rd_again>>
    /\ UNCHANGED text_vars

\* save_bibtex is False: return final_df after the CSV export.
ReturnWithoutBibtex ==
    /\ pc = "bibtex"
    /\ ~save_bibtex_arg
    /\ pc' = "returned"
    /\ UNCHANGED <<source, save_bibtex_arg, all_papers, csv_file, bib_file, final_df,
                   raised, write_failed, df, tfidf, rd_out, rd_again>>
    /\ UNCHANGED text_vars

Next ==
    \/ AppendPaper
    \/ ReturnEmpty
    \/ ExportCsv
    \/ ExportBibtex
    \/ ReturnWithoutBibtex

Spec == Init /\ [][Next]_vars

(***************************************************************************)
(* remove_duplicates (record_standardisations.py).                         *)
(***************************************************************************)
\* The duplicate threshold 0.8 of line 38, in hundredths.
Threshold == 80

\* Similarity values (hundredths) two different titles with terms may get:
\* below the threshold, exactly the threshold, above it.
SimValues == {50, 80, 85}

TitlePairs == {{a, b} : a, b \in TermTitles} \ {{a} : a \in TermTitles}

\* cosine_similarity of the TF-IDF vectors, as a function of the two titles:
\* symmetric, 1 for a title with itself, 0 with a title that has no term
\* (a zero vector), any of SimValues for two different titles with terms.
TitleSimOf(f) ==
    [p \in Titles \X Titles |->
        IF p[1] = StopTitle \/ p[2] = StopTitle THEN 0
        ELSE IF p[1] = p[2] THEN 100
        ELSE f[{p[1], p[2]}]]

TitleSims == {TitleSimOf(f) : f \in [TitlePairs -> SimValues]}

\* similarity_matrix of line 32 for the rows of a frame.
similarity_matrix(rows, sim) ==
    [i \in DOMAIN rows |->
        [j \in DOMAIN rows |-> sim[<<rows[i].title, rows[j].title>>]]]

\* The comparison written >= 0.8 instead of > 0.8.
RECURSIVE InnerLoopAtLeast(_, _, _, _)
InnerLoopAtLeast(matrix, i, j, duplicates) ==
    IF j > Len(matrix) THEN duplicates
    ELSE InnerLoopAtLeast(matrix, i, j + 1,
                          IF matrix[i][j] >= Threshold
                          THEN Append(duplicates, j) ELSE duplicates)

\* for j in range(i+1, len(similarity_matrix)), lines 37-39.
RECURSIVE InnerLoop(_, _, _, _)
InnerLoop(matrix, i, j, duplicates) ==
    IF j > Len(matrix) THEN duplicates
    ELSE InnerLoop(matrix, i, j + 1,
                   IF matrix[i][j] > Threshold
                   THEN Append(duplicates, j) ELSE duplicates)

\* The outer loop skipping a row i that is already marked as a duplicate
\* (removal by clusters instead of by pairs).
RECURSIVE OuterLoopSkipRemoved(_, _, _)
OuterLoopSkipRemoved(matrix, i, duplicates) ==
    IF i > Len(matrix) THEN duplicates
    ELSE OuterLoopSkipRemoved(matrix, i + 1,
            IF \E k \in DOMAIN duplicates : duplicates[k] = i
            THEN duplicates
            ELSE InnerLoop(matrix, i, i + 1, duplicates))

\* The inner loop started at j = i instead of j = i + 1.
RECURSIVE OuterLoopFromSelf(_, _, _)
OuterLoopFromSelf(matrix, i, duplicates) ==
    IF i > Len(matrix) THEN duplicates
    ELSE OuterLoopFromSelf(matrix, i + 1, InnerLoop(matrix, i, i, duplicates))

\* for i in range(len(similarity_matrix)), lines 36-39.
RECURSIVE OuterLoop(_, _, _)
OuterLoop(matrix, i, duplicates) ==
    IF i > Len(matrix) THEN duplicates
    ELSE OuterLoop(matrix, i + 1, InnerLoop(matrix, i, i + 1, duplicates))

\* The list duplicates of lines 35-39 (positions, possibly repeated).
find_duplicates(matrix) == OuterLoop(matrix, 1, <<>>)

\* df.drop(df.index[duplicates]).reset_index(drop=True), line 42: the index
\* is a RangeIndex, so the labels to drop are the positions listed.
RECURSIVE drop_scan(_, _, _, _)
drop_scan(rows, i, labels, kept) ==
    IF i > Len(rows) THEN kept
    ELSE drop_scan(rows, i + 1, labels,
                  IF i \in labels THEN kept ELSE Append(kept, rows[i]))

drop(rows, duplicates) ==
    drop_scan(rows, 1, {duplicates[k] : k \in DOMAIN duplicates}, <<>>)

\* remove_duplicates(df).  df['title'] raises KeyError on a frame without
\* that column; TfidfVectorizer.fit_transform raises ValueError (empty
\* vocabulary) when no title has a term.
remove_duplicates(frame, sim) ==
    IF "title" \notin frame.columns
    THEN [raised |-> "KeyError", value |-> NoValue]
    ELSE IF \A i \in DOMAIN frame.rows : frame.rows[i].title = StopTitle
    THEN [raised |-> "ValueError", value |-> NoValue]
    ELSE [raised |-> NoError,
          value  |-> [set |-> TRUE,
                      frame |-> [frame EXCEPT !.rows =
                          drop(frame.rows,
                                   find_duplicates(similarity_matrix(frame.rows, sim)))]]]

\* Rows of the frames remove_duplicates is called on in this model.
RowValues == [doi : {None, DoiOther}, title : Titles]

InitRd ==
    /\ source = "none"
    /\ save_bibtex_arg = FALSE
    /\ all_papers = <<>>
    /\ pc = "call"
    /\ csv_file = NoFile
    /\ bib_file = NoFile
    /\ final_df = NoValue
    /\ raised = NoError
    /\ write_failed = FALSE
    /\ df \in {DataFrame(l) : l \in BoundedSeq(RowValues, MaxPapers)}
    /\ tfidf \in TitleSims
    /\ rd_out = NoValue
    /\ rd_again = NoValue
    /\ TextIdle

\* remove_duplicates(df)
CallRemoveDuplicates ==
    /\ pc = "call"
    /\ LET r == remove_duplicates(df, tfidf)
       IN  /\ rd_out' = r.value
           /\ raised' = r.raised
           /\ pc' = IF r.raised = NoError THEN "returned" ELSE "raised"
    /\ UNCHANGED <<source, save_bibtex_arg, all_papers, csv_file, bib_file, final_df,
                   write_failed, df, tfidf, rd_again>>
    /\ UNCHANGED text_vars

\* remove_duplicates applied to the result of the first call.  The vectorizer
\* is fitted anew: on the same titles it gives the same similarities, on a
\* changed set of titles any.
CallRemoveDuplicatesAgain ==
    /\ pc = "returned"
    /\ \E sim \in IF rd_out.frame = df THEN {tfidf} ELSE TitleSims :
         LET r == remove_duplicates(rd_out.frame, sim)
         IN  /\ rd_again' = r.value
             /\ raised' = r.raised
             /\ pc' = IF r.raised = NoError THEN "returned_again" ELSE "raised"
    /\ UNCHANGED <<source, save_bibtex_arg, all_papers, csv_file, bib_file, final_df,
                   write_failed, df, tfidf, rd_out>>
    /\ UNCHANGED text_vars

NextRd == CallRemoveDuplicates \/ CallRemoveDuplicatesAgain

SpecRd == InitRd /\ [][NextRd]_vars

(***************************************************************************)
(* Direct calls of save_bibtex: a list of papers as validate_paper_entry   *)
(* returns them is exported, and then exported once more.                  *)
(***************************************************************************)
BibTitles == {Str(<<>>), Str(<<"a">>), Str(<<"a", "1">>)}

\* The papers of validate_paper_entry (lines 99-164) with no authors, year,
\* venue, url and citations; the title "" comes from a blank raw title.
BibPaper ==
    {[doi |-> d, title |-> t, authors |-> None, year |-> None,
      publicationName |-> None, url |-> None] @@ ("citedby-count" :> IntValue(0)) :
        d \in {None, DoiOther}, t \in BibTitles}

\* A text with braces in it.
BraceText == Str(<<"{", "a", "}">>)

\* Papers with any of the fields paper_to_bibtex writes, braces in the
\* texts; each is exported as a list of its own.
FullPaper ==
    {[doi |-> d, title |-> t, authors |-> a, year |-> y,
      publicationName |-> j, url |-> u] @@ ("citedby-count" :> c) :
        d \in {None, BraceText}, t \in {Str(<<>>), BraceText},
        a \in {None, BraceText}, y \in {None, IntValue(2021)},
        j \in {None, BraceText}, u \in {None, BraceText},
        c \in {IntValue(0), IntValue(2)}}

InitBib ==
    /\ source = "none"
    /\ save_bibtex_arg = FALSE
    /\ all_papers \in BoundedSeq(BibPaper, MaxPapers) \cup {<<p>> : p \in FullPaper}
    /\ pc = "call"
    /\ csv_file = NoFile
    /\ bib_file = NoFile
    /\ final_df = NoValue
    /\ raised = NoError
    /\ write_failed = FALSE
    /\ df = <<>>
    /\ tfidf = <<>>
    /\ rd_out = NoValue
    /\ rd_again = NoValue
    /\ TextIdle

CallSaveBibtex ==
    /\ pc = "call"
    /\ \E ok \in BOOLEAN :
         LET r == save_bibtex(all_papers, ok)
         IN  /\ bib_file' = r.file
             /\ key_trace' = r.trace
             /\ raised' = r.raised
             /\ write_failed' = ~ok
             /\ pc' = IF r.raised = NoError THEN "returned" ELSE "raised"
    /\ UNCHANGED <<source, save_bibtex_arg, all_papers, csv_file, final_df, df, tfidf,
                   rd_out, rd_again, bib_again, key_args, registry, key_calls,
                   raw_entry, normalized>>
    /\ UNCHANGED <<venue_arg, processed, loop>>

\* The same list is exported a second time, over the file of the first call.
CallSaveBibtexAgain ==
    /\ pc = "returned"
    /\ LET r == save_bibtex(all_papers, TRUE)
       IN  /\ bib_again' = [set |-> TRUE, file |-> r.file, trace |-> r.trace,
                            raised |-> r.raised]
           /\ pc' = "returned_again"
    /\ UNCHANGED <<source, save_bibtex_arg, all_papers, csv_file, bib_file, final_df,
                   raised, write_failed, df, tfidf, rd_out, rd_again, key_trace,
                   key_args, registry, key_calls, raw_entry, normalized>>
    /\ UNCHANGED <<venue_arg, processed, loop>>

NextBib == CallSaveBibtex \/ CallSaveBibtexAgain

SpecBib == InitBib /\ [][NextBib]_vars

(***************************************************************************)
(* Direct calls of clean_bibtex_key on one (title, authors, year), with    *)
(* any doi, against a registry that the caller extends by the returned     *)
(* key as save_bibtex does.                                                *)
(***************************************************************************)
LongTitle == Str([i \in 1..LongWordLen |-> "a"])

KeyTitles == {None, Str(<<>>), Str(<<"a", "_", "b", " ", "c">>), Str(<<"T", "h", "e", " ", "{", "x", "}", "!">>), LongTitle}

KeyAuthors == {None, Str(<<" ", "J", "o", "h", "n", " ", "D", "o", "e", ",", " ", "X">>), Str(<<"O", "_", "N", "e", "i", "l", ";", " ", "B">>), Str(<<";">>)}

KeyYears == {None, IntValue(2021)}

KeyDois == {None, DoiOther}

\* Keys a caller may hold already: the base key followed by 1 or by 2.
HeldKeys(args) ==
    {base_key(args.title, args.authors, args.year) \o <<d>> : d \in {"1", "2"}}

InitKey ==
    /\ source = "none"
    /\ save_bibtex_arg = FALSE
    /\ all_papers = <<>>
    /\ pc = "call"
    /\ csv_file = NoFile
    /\ bib_file = NoFile
    /\ final_df = NoValue
    /\ raised = NoError
    /\ write_failed = FALSE
    /\ df = <<>>
    /\ tfidf = <<>>
    /\ rd_out = NoValue
    /\ rd_again = NoValue
    /\ key_trace = <<>>
    /\ bib_again = NoValue
    /\ key_args \in [title : KeyTitles, authors : KeyAuthors, year : KeyYears]
    /\ registry \in SUBSET HeldKeys(key_args)
    /\ key_calls = <<>>
    /\ raw_entry = NoValue
    /\ normalized = NoValue
    /\ venue_arg = NoValue
    /\ processed = <<>>
    /\ loop = NoValue

\* One call; the last two calls are kept.
CallCleanBibtexKey ==
    /\ \E doi \in KeyDois :
         LET call == [doi |-> doi, existing_keys |-> registry,
                      key |-> clean_bibtex_key(key_args.title, key_args.authors,
                                               key_args.year, doi, registry)]
         IN  key_calls' = IF key_calls = <<>> THEN <<call>>
                          ELSE <<key_calls[Len(key_calls)], call>>
    /\ UNCHANGED <<source, save_bibtex_arg, all_papers, pc, csv_file, bib_file,
                   final_df, raised, write_failed, df, tfidf, rd_out, rd_again,
                   key_trace, bib_again, key_args, registry, raw_entry, normalized>>
    /\ UNCHANGED <<venue_arg, processed, loop>>

\* existing_keys.add(key) of the caller, line 322.
AddKey ==
    /\ key_calls # <<>>
    /\ Cardinality(registry) < MaxRegistry
    /\ registry' = registry \cup {key_calls[Len(key_calls)].key}
    /\ UNCHANGED <<source, save_bibtex_arg, all_papers, pc, csv_file, bib_file,
                   final_df, raised, write_failed, df, tfidf, rd_out, rd_again,
                   key_trace, bib_again, key_args, key_calls, raw_entry, normalized>>
    /\ UNCHANGED <<venue_arg, processed, loop>>

NextKey == CallCleanBibtexKey \/ AddKey

SpecKey == InitKey /\ [][NextKey]_vars

(***************************************************************************)
(* The normalizers: validate_paper_entry (api_utils.py) and the            *)
(* validate_<source>_paper_entry functions of the get* modules, called on  *)
(* one raw entry.  The fields only one source adds to the paper (dblp_key,  *)
(* ieee_keywords, ...) are left out of the paper; the exception their      *)
(* extraction can raise is kept.                                           *)
(***************************************************************************)
UnknownTitle == Str(<<"U", "n", "k", "n", "o", "w", "n", " ", "T", "i", "t", "l", "e">>)

\* The empty dict a normalizer returns for an entry it rejects.
EmptyDict == <<>>

\* a or b
py_or(a, b) == IF Truthy(a) THEN a ELSE b

\* The value of a sequence of decimal digits.
RECURSIVE digits_value(_)
digits_value(s) ==
    IF s = <<>> THEN 0
    ELSE digits_value(SubSeq(s, 1, Len(s) - 1)) * 10
         + ((CHOOSE i \in DOMAIN Digits : Digits[i] = s[Len(s)]) - 1)

\* int(s) for a str: blanks around are dropped, a sign may lead, single
\* underscores may stand between digits; ok is FALSE for a ValueError.
py_int(s) ==
    LET t == strip(s)
        signed == t # <<>> /\ t[1] \in {"+", "-"}
        body == IF signed THEN Tail(t) ELSE t
        valid == /\ body # <<>>
                 /\ \A i \in DOMAIN body :
                        \/ IsDigit(body[i])
                        \/ /\ body[i] = "_"
                           /\ i > 1 /\ i < Len(body)
                           /\ IsDigit(body[i - 1]) /\ IsDigit(body[i + 1])
        value == digits_value(SelectSeq(body, IsDigit))
    IN  [ok |-> valid,
         value |-> IF ~valid THEN 0
                   ELSE IF signed /\ t[1] = "-" THEN 0 - value ELSE value]

\* s.split('-')[0]
first_segment(s) ==
    LET dashes == {i \in DOMAIN s : s[i] = "-"}
    IN  IF dashes = {} THEN s
        ELSE SubSeq(s, 1, (CHOOSE i \in dashes : \A j \in dashes : i <= j) - 1)

\* The range of a year, 1900 <= year <= 2030.
MinYear == 1900

MaxYear == 2030

\* The title test that accepts everything but None.
NormalizedTitleOnlyNone(title) ==
    IF title = None THEN UnknownTitle
    ELSE IF IsStr(title) THEN Str(strip(title.str)) ELSE title

\* if not title or not isinstance(title, str): "Unknown Title"
\* else: title.strip()
normalized_title(title) ==
    IF ~Truthy(title) \/ ~IsStr(title) THEN UnknownTitle
    ELSE Str(strip(title.str))

\* if doi is not None and not isinstance(doi, str): doi = None
normalized_doi(doi) == IF doi # None /\ ~IsStr(doi) THEN None ELSE doi

\* The year block; split tells whether the source takes the first
\* '-'-separated segment (Scopus, Springer, OpenAlex, validate_paper_entry)
\* or the whole string (IEEE, DBLP).
normalized_year(year_str, split_first) ==
    IF Truthy(year_str) /\ IsStr(year_str)
    THEN LET parsed == py_int(IF split_first THEN first_segment(year_str.str)
                              ELSE year_str.str)
         IN  IF parsed.ok /\ MinYear <= parsed.value /\ parsed.value <= MaxYear
             THEN IntValue(parsed.value)
             ELSE None
    ELSE None

\* if value and isinstance(value, str): value.strip() else None
stripped_or_none(value) ==
    IF Truthy(value) /\ IsStr(value) THEN Str(strip(value.str)) ELSE None

\* The citation count: int(cited_count), 0 when it is None or does not
\* convert (ValueError, TypeError).
normalized_count(cited_count) ==
    IF cited_count = None THEN IntValue(0)
    ELSE IF IsInt(cited_count) THEN cited_count
    ELSE IF IsStr(cited_count) /\ py_int(cited_count.str).ok
         THEN IntValue(py_int(cited_count.str).value)
    ELSE IntValue(0)

\* "; ".join(author_names)
RECURSIVE join(_)
join(names) ==
    IF names = <<>> THEN <<>>
    ELSE IF Len(names) = 1 THEN names[1]
    ELSE names[1] \o <<";", " ">> \o join(Tail(names))

\* "; ".join(author_names) if author_names else None
names_or_none(names) == IF names # <<>> THEN Str(join(names)) ELSE None

\* Authors given as a str (Scopus, validate_paper_entry).
authors_of_str(authors) ==
    IF authors # None /\ ~IsStr(authors) THEN None ELSE authors

\* Authors of Springer: a list of {'creator': name}, or a str.
authors_of_creators(authors) ==
    IF authors = None THEN None
    ELSE IF IsList(authors)
    THEN LET named == SelectSeq(authors.list,
                 LAMBDA a : /\ IsDict(a)
                            /\ "creator" \in DOMAIN a.dict
                            /\ IsStr(a.dict["creator"]))
         IN  names_or_none([i \in DOMAIN named |-> strip(named[i].dict["creator"].str)])
    ELSE IF ~IsStr(authors) THEN None
    ELSE authors

\* Authors of IEEE and DBLP: entry.get(outer, {}).get(inner, []), a list of
\* {name_key: name}.  The second .get raises AttributeError when the outer
\* value is not a dict.
authors_of_nested(entry, outer, inner, name_key) ==
    LET holder == GetOr(entry, outer, Dict(<<>>))
    IN  IF ~IsDict(holder) THEN [raised |-> "AttributeError", value |-> None]
        ELSE LET authors == GetOr(holder.dict, inner, List(<<>>))
             IN  IF Truthy(authors) /\ IsList(authors)
                 THEN LET named == SelectSeq(authors.list,
                              LAMBDA a : /\ IsDict(a)
                                         /\ Truthy(GetOr(a.dict, name_key, Str(<<>>))))
                      IN  [raised |-> NoError,
                           value |-> names_or_none(
                               [i \in DOMAIN named |-> named[i].dict[name_key].str])]
                 ELSE [raised |-> NoError, value |-> None]

\* Authors of OpenAlex: the display_name of the author of each authorship.
authors_of_authorships(authorships) ==
    IF Truthy(authorships) /\ IsList(authorships)
    THEN LET named == SelectSeq(authorships.list,
                 LAMBDA a : /\ IsDict(a)
                            /\ IsDict(GetOr(a.dict, "author", Dict(<<>>)))
                            /\ Truthy(Get(GetOr(a.dict, "author", Dict(<<>>)).dict,
                                          "display_name")))
         IN  names_or_none(
                 [i \in DOMAIN named |-> named[i].dict["author"].dict["display_name"].str])
    ELSE None

\* The venue of OpenAlex: primary_location.source.display_name.
venue_of_location(primary_location) ==
    IF IsDict(primary_location)
       /\ IsDict(GetOr(primary_location.dict, "source", Dict(<<>>)))
    THEN stripped_or_none(
             Get(GetOr(primary_location.dict, "source", Dict(<<>>)).dict,
                 "display_name"))
    ELSE None

\* The paper dict with the fields every normalizer sets.
make_paper(doi, title, authors, year, publicationName, url, count) ==
    [doi |-> doi, title |-> title, authors |-> authors, year |-> year,
     publicationName |-> publicationName, url |-> url]
    @@ ("citedby-count" :> count)

\* What a normalizer call ends with: the dict returned, or an exception.
Returned(paper) == [raised |-> NoError, paper |-> paper]

Raised(exception) == [raised |-> exception, paper |-> EmptyDict]

\* validate_paper_entry(entry, required_fields)
validate_paper_entry(entry, required_fields) ==
    IF ~entry.mapping THEN Returned(EmptyDict)
    ELSE LET e == entry.fields
             paper == make_paper(
                 normalized_doi(py_or(Get(e, "doi"), Get(e, "prism:doi"))),
                 normalized_title(py_or(Get(e, "title"), Get(e, "dc:title"))),
                 authors_of_str(py_or(py_or(Get(e, "authors"), Get(e, "dc:creator")),
                                      Get(e, "author"))),
                 normalized_year(py_or(py_or(Get(e, "year"),
                                             Get(e, "prism:coverDisplayDate")),
                                       Get(e, "publicationYear")), TRUE),
                 stripped_or_none(py_or(py_or(Get(e, "publicationName"),
                                              Get(e, "prism:publicationName")),
                                        Get(e, "journal"))),
                 stripped_or_none(py_or(Get(e, "url"), Get(e, "prism:url"))),
                 normalized_count(py_or(py_or(Get(e, "citedby-count"),
                                              Get(e, "citationCount")),
                                        Get(e, "citations"))))
         IN  IF \E field \in required_fields :
                    field \notin DOMAIN paper \/ paper[field] = None
             THEN Returned(EmptyDict)
             ELSE Returned(paper)

validate_scopus_paper_entry(e) ==
    Returned(make_paper(
        normalized_doi(Get(e, "prism:doi")),
        normalized_title(Get(e, "dc:title")),
        authors_of_str(Get(e, "dc:creator")),
        normalized_year(Get(e, "prism:coverDisplayDate"), TRUE),
        stripped_or_none(Get(e, "prism:publicationName")),
        stripped_or_none(Get(e, "prism:url")),
        normalized_count(Get(e, "citedby-count"))))

validate_springer_paper_entry(e) ==
    Returned(make_paper(
        normalized_doi(Get(e, "doi")),
        normalized_title(Get(e, "title")),
        authors_of_creators(Get(e, "creators")),
        normalized_year(Get(e, "publicationDate"), TRUE),
        stripped_or_none(Get(e, "publicationName")),
        stripped_or_none(Get(e, "url")),
        IntValue(0)))

\* The IEEE keywords, entry.get("index_terms", {}).get("ieee_terms", {})
\* .get("terms", []), raise AttributeError on a value that is not a dict.
validate_ieee_paper_entry(e) ==
    LET authors == authors_of_nested(e, "authors", "authors", "full_name")
        index_terms == GetOr(e, "index_terms", Dict(<<>>))
    IN  IF authors.raised # NoError THEN Raised(authors.raised)
        ELSE IF \/ ~IsDict(index_terms)
                \/ ~IsDict(GetOr(index_terms.dict, "ieee_terms", Dict(<<>>)))
        THEN Raised("AttributeError")
        ELSE Returned(make_paper(
                 normalized_doi(Get(e, "doi")),
                 normalized_title(Get(e, "title")),
                 authors.value,
                 normalized_year(Get(e, "publication_year"), FALSE),
                 stripped_or_none(Get(e, "publication_title")),
                 stripped_or_none(py_or(Get(e, "pdf_url"), Get(e, "article_url"))),
                 normalized_count(Get(e, "citing_paper_count"))))

\* The url of OpenAlex is the id, kept as it is.
validate_openalex_paper_entry(e) ==
    Returned(make_paper(
        normalized_doi(Get(e, "doi")),
        normalized_title(Get(e, "title")),
        authors_of_authorships(GetOr(e, "authorships", List(<<>>))),
        normalized_year(Get(e, "publication_date"), TRUE),
        venue_of_location(GetOr(e, "primary_location", Dict(<<>>))),
        IF Truthy(Get(e, "id")) /\ IsStr(Get(e, "id")) THEN Get(e, "id") ELSE None,
        normalized_count(Get(e, "cited_by_count"))))

validate_dblp_paper_entry(e) ==
    LET authors == authors_of_nested(e, "authors", "author", "text")
    IN  IF authors.raised # NoError THEN Raised(authors.raised)
        ELSE Returned(make_paper(
                 normalized_doi(Get(e, "doi")),
                 normalized_title(Get(e, "title")),
                 authors.value,
                 normalized_year(Get(e, "year"), FALSE),
                 stripped_or_none(Get(e, "venue")),
                 stripped_or_none(Get(e, "url")),
                 IntValue(0)))

\* The normalizer of a source called on a raw entry.
validate_source_paper_entry(src, entry) ==
    IF ~entry.mapping THEN Returned(EmptyDict)
    ELSE CASE src = "scopus"   -> validate_scopus_paper_entry(entry.fields)
           [] src = "springer" -> validate_springer_paper_entry(entry.fields)
           [] src = "ieee"     -> validate_ieee_paper_entry(entry.fields)
           [] src = "openalex" -> validate_openalex_paper_entry(entry.fields)
           [] src = "dblp"     -> validate_dblp_paper_entry(entry.fields)

Normalizers == Sources \cup {"validate_paper_entry"}

(***************************************************************************)
(* The raw entries a normalizer is called with.  A field is absent or      *)
(* holds one of a few values of each kind: null, strings, numbers, lists,  *)
(* dicts, well-formed and not.                                             *)
(***************************************************************************)
Absent == [absent |-> TRUE]

\* The dict of the fields that are present.
Present(f) == [k \in {k \in DOMAIN f : f[k] # Absent} |-> f[k]]

\* The key under which a source carries a field.
RawKey(src, field) ==
    CASE src = "scopus" ->
           [doi |-> "prism:doi", title |-> "dc:title", authors |-> "dc:creator",
            year |-> "prism:coverDisplayDate", venue |-> "prism:publicationName",
            count |-> "citedby-count"][field]
      [] src = "springer" ->
           [doi |-> "doi", title |-> "title", authors |-> "creators",
            year |-> "publicationDate", venue |-> "publicationName",
            count |-> "citedby-count"][field]
      [] src = "ieee" ->
           [doi |-> "doi", title |-> "title", authors |-> "authors",
            year |-> "publication_year", venue |-> "publication_title",
            count |-> "citing_paper_count"][field]
      [] src = "openalex" ->
           [doi |-> "doi", title |-> "title", authors |-> "authorships",
            year |-> "publication_date", venue |-> "primary_location",
            count |-> "cited_by_count"][field]
      [] src = "dblp" ->
           [doi |-> "doi", title |-> "title", authors |-> "authors",
            year |-> "year", venue |-> "venue", count |-> "citedby-count"][field]
      [] OTHER ->
           [doi |-> "doi", title |-> "title", authors |-> "authors",
            year |-> "year", venue |-> "publicationName",
            count |-> "citedby-count"][field]

\* Values a field of a raw entry may hold: null, strings, numbers, lists.
RawValues ==
    {None, Str(<<>>), Str(<<" ">>), TitleT1, Str(<<" ", "T", "1", " ">>), IntValue(0),
     IntValue(7), List(<<>>), List(<<TitleT1>>)}

Year2021 == Str(<<"2", "0", "2", "1">>)

DateIn2021 == Str(<<"2", "0", "2", "1", "-", "0", "5", "-", "0", "1">>)

Year1899 == Str(<<"1", "8", "9", "9">>)

Year1900 == Str(<<"1", "9", "0", "0">>)

Year2030 == Str(<<"2", "0", "3", "0">>)

Year2031 == Str(<<"2", "0", "3", "1">>)

YearNoNumber == Str(<<"a", "b", "c">>)

RawYears ==
    {Absent, None, Str(<<>>), Year2021, DateIn2021, Year1899, Year1900, Year2030,
     Year2031, YearNoNumber, IntValue(2021)}

AuthorName == Str(<<"A", " ", "B">>)

\* The authors in the form the source documents.
SourceAuthors(src) ==
    CASE src = "springer" -> List(<<Dict([creator |-> AuthorName])>>)
      [] src = "ieee" ->
           Dict([authors |-> List(<<Dict([full_name |-> AuthorName])>>)])
      [] src = "openalex" ->
           List(<<Dict([author |-> Dict([display_name |-> AuthorName])])>>)
      [] src = "dblp" -> Dict([author |-> List(<<Dict([text |-> AuthorName])>>)])
      [] OTHER -> AuthorName

RawAuthors(src) == {Absent, None, AuthorName, List(<<>>), SourceAuthors(src)}

VenueName == Str(<<" ", "V", " ">>)

SourceVenue(src) ==
    IF src = "openalex"
    THEN Dict([source |-> Dict([display_name |-> VenueName])])
    ELSE VenueName

RawVenues(src) == {Absent, SourceVenue(src), IntValue(7)}

RawCounts == {Absent, Str(<<"x">>)}

\* index_terms, which only IEEE reads.
RawIndexTerms(src) ==
    IF src = "ieee"
    THEN {Absent, Dict([ieee_terms |-> Dict([terms |-> List(<<>>)])]), Str(<<"x">>)}
    ELSE {Absent}

\* dc:title, the other name validate_paper_entry reads the title from.
RawTitleAlias(src) ==
    IF src = "validate_paper_entry" THEN {Absent, None, TitleT1, IntValue(7)}
    ELSE {Absent}

\* The raw entries of a source: a value that is not a mapping, and the
\* mappings over the fields above.
RawEntries(src) ==
    {[mapping |-> FALSE, fields |-> <<>>]}
    \cup {[mapping |-> TRUE,
           fields |-> Present((RawKey(src, "doi") :> d)
                              @@ (RawKey(src, "title") :> t)
                              @@ (RawKey(src, "authors") :> a)
                              @@ (RawKey(src, "year") :> y)
                              @@ (RawKey(src, "venue") :> v)
                              @@ (RawKey(src, "count") :> c)
                              @@ ("index_terms" :> x)
                              @@ ("dc:title" :> alias))] :
             d \in {Absent, DoiOther}, t \in {Absent} \cup RawValues,
             a \in RawAuthors(src), y \in RawYears, v \in RawVenues(src),
             c \in RawCounts, x \in RawIndexTerms(src),
             alias \in RawTitleAlias(src)}

InitNorm ==
    /\ source \in Normalizers
    /\ save_bibtex_arg = FALSE
    /\ all_papers = <<>>
    /\ pc = "call"
    /\ csv_file = NoFile
    /\ bib_file = NoFile
    /\ final_df = NoValue
    /\ raised = NoError
    /\ write_failed = FALSE
    /\ df = <<>>
    /\ tfidf = <<>>
    /\ rd_out = NoValue
    /\ rd_again = NoValue
    /\ key_trace = <<>>
    /\ bib_again = NoValue
    /\ key_args = NoValue
    /\ registry = {}
    /\ key_calls = <<>>
    /\ raw_entry \in RawEntries(source)
    /\ normalized = NoValue
    /\ venue_arg = NoValue
    /\ processed = <<>>
    /\ loop = NoValue

CallNormalizer ==
    /\ pc = "call"
    /\ \E required_fields \in SUBSET {"doi"} :
         LET r == IF source = "validate_paper_entry"
                  THEN validate_paper_entry(raw_entry, required_fields)
                  ELSE validate_source_paper_entry(source, raw_entry)
         IN  /\ normalized' = [set |-> TRUE, paper |-> r.paper]
             /\ raised' = r.raised
    /\ pc' = "returned"
    /\ UNCHANGED <<source, save_bibtex_arg, all_papers, csv_file, bib_file,
                   final_df, write_failed, df, tfidf, rd_out, rd_again,
                   key_trace, bib_again, key_args, registry, key_calls, raw_entry>>
    /\ UNCHANGED <<venue_arg, processed, loop>>

NextNorm == CallNormalizer

SpecNorm == InitNorm /\ [][NextNorm]_vars

(***************************************************************************)
(* The loop over the entries of a fetched page, getScopus.py 264-273 and   *)
(* the same loop of the other get_* functions; getDBLP.py 293-308 adds the *)
(* venue filter.  One step of the loop:                                    *)
(*     try:                                                                *)
(*         paper = validate_<source>_paper_entry(entry)                    *)
(*         if paper: all_papers.append(paper)                              *)
(*     except Exception: continue                                          *)
(***************************************************************************)
\* venue.lower() in paper_venue.lower()
venue_matches(venue, paper_venue) == find(lower(paper_venue), lower(venue), 0) # -1

\* What the loop does with the outcome r of the normalizer: the exception
\* caught (NoError when none), the paper returned and the list afterwards.
after_validate(src, venue, r, papers) ==
    IF r.raised # NoError
    THEN [raised |-> r.raised, paper |-> EmptyDict, papers |-> papers]
    ELSE IF r.paper = EmptyDict
    THEN [raised |-> NoError, paper |-> r.paper, papers |-> papers]
    ELSE IF src # "dblp"
    THEN [raised |-> NoError, paper |-> r.paper, papers |-> Append(papers, r.paper)]
    ELSE IF ~IsStr(GetOr(r.paper, "publicationName", Str(<<>>)))
    THEN [raised |-> "AttributeError", paper |-> r.paper, papers |-> papers]
    ELSE [raised |-> NoError, paper |-> r.paper,
          papers |-> IF venue_matches(venue.str, r.paper.publicationName.str)
                     THEN Append(papers, r.paper) ELSE papers]

\* The loop appending whatever the normalizer returns, the empty dict too.
AppendsEmpty(r, papers) ==
    IF r.raised # NoError
    THEN [raised |-> r.raised, paper |-> EmptyDict, papers |-> papers]
    ELSE [raised |-> NoError, paper |-> r.paper, papers |-> Append(papers, r.paper)]

ProcessEntryAppendsEmpty(src, venue, entry, papers) ==
    AppendsEmpty(validate_source_paper_entry(src, entry), papers)

\* One step of the loop on an entry.
process_entry(src, venue, entry, papers) ==
    after_validate(src, venue, validate_source_paper_entry(src, entry), papers)

\* An entry of a page with the given authors, venue and index_terms.
PageEntry(src, a, v, x) ==
    [mapping |-> TRUE,
     fields |-> Present((RawKey(src, "doi") :> DoiOther)
                        @@ (RawKey(src, "title") :> TitleT1)
                        @@ (RawKey(src, "authors") :> a)
                        @@ (RawKey(src, "year") :> Year2021)
                        @@ (RawKey(src, "venue") :> v)
                        @@ ("index_terms" :> x))]

\* The entry in the form the source documents.
GoodEntry(src) == PageEntry(src, SourceAuthors(src), SourceVenue(src), Absent)

\* A well-formed entry with the given DOI field and title.
DoiEntry(src, d, t) ==
    [mapping |-> TRUE,
     fields |-> Present((RawKey(src, "doi") :> d)
                        @@ (RawKey(src, "title") :> t)
                        @@ (RawKey(src, "authors") :> SourceAuthors(src))
                        @@ (RawKey(src, "year") :> Year2021)
                        @@ (RawKey(src, "venue") :> SourceVenue(src)))]

\* Entries that carry no DOI value: the key missing, null, the empty string.
NoDoiEntries(src) ==
    {DoiEntry(src, Absent, TitleT1), DoiEntry(src, None, TitleT2),
     DoiEntry(src, DoiEmpty, TitleT1), DoiEntry(src, DoiEmpty, TitleT2)}

NonMapping == [mapping |-> FALSE, fields |-> <<>>]

\* The entries of a page: one that is not a mapping, a well-formed one,
\* ones whose authors are null or a str, whose venue is missing, whose
\* index_terms are not a mapping, and ones without a DOI value.
PageEntries(src) ==
    {NonMapping, GoodEntry(src),
     PageEntry(src, None, SourceVenue(src), Absent),
     PageEntry(src, AuthorName, SourceVenue(src), Absent),
     PageEntry(src, SourceAuthors(src), Absent, Absent)}
    \cup {PageEntry(src, SourceAuthors(src), SourceVenue(src), x) :
            x \in RawIndexTerms(src)}
    \cup NoDoiEntries(src)

\* The venue argument of get_dblp_venue; the other sources take none.
Venues(src) == IF src = "dblp" THEN {Str(<<"v">>), Str(<<"x">>)} ELSE {NoValue}

InitPage ==
    /\ source \in Sources
    /\ save_bibtex_arg \in BOOLEAN
    /\ all_papers = <<>>
    /\ pc = "fetch"
    /\ csv_file = NoFile
    /\ bib_file = NoFile
    /\ final_df = NoValue
    /\ raised = NoError
    /\ write_failed = FALSE
    /\ df = <<>>
    /\ tfidf = <<>>
    /\ rd_out = NoValue
    /\ rd_again = NoValue
    /\ key_trace = <<>>
    /\ bib_again = NoValue
    /\ key_args = NoValue
    /\ registry = {}
    /\ key_calls = <<>>
    /\ raw_entry = NoValue
    /\ normalized = NoValue
    /\ venue_arg \in Venues(source)
    /\ processed = <<>>
    /\ loop = NoValue

\* The record kept of a step of the loop.
Step(entry, r, papers) ==
    [entry |-> entry, raised |-> r.raised, paper |-> r.paper,
     appended |-> r.papers # papers]

\* The loop body run on the next entry of the page.
ProcessEntry ==
    /\ pc = "fetch"
    /\ Len(processed) < MaxPapers
    /\ \E entry \in PageEntries(source) :
         /\ all_papers' = process_entry(source, venue_arg, entry, all_papers).papers
         /\ processed' = Append(processed,
                Step(entry, process_entry(source, venue_arg, entry, all_papers),
                     all_papers))
    /\ UNCHANGED <<source, save_bibtex_arg, pc, csv_file, bib_file, final_df, raised,
                   write_failed, df, tfidf, rd_out, rd_again, key_trace, bib_again,
                   key_args, registry, key_calls, raw_entry, normalized, venue_arg,
                   loop>>

NextPage ==
    \/ ProcessEntry
    \/ ReturnEmpty
    \/ ExportCsv
    \/ ExportBibtex
    \/ ReturnWithoutBibtex

SpecPage == InitPage /\ [][NextPage]_vars

(***************************************************************************)
(* The fetch loops of the get_* functions: the validation of the           *)
(* arguments, the creation of the output folder, the paging loop with its  *)
(* retry loop and the counter of consecutive errors.  The variable loop    *)
(* holds the locals of the function (start_index, retries,                 *)
(* consecutive_errors, and year and done for get_dblp_venue) and what the  *)
(* run has done so far (requests issued, folder created); all_papers gets  *)
(* one record per page whose entries were appended.                        *)
(***************************************************************************)
\* max_consecutive_errors = 3
MaxConsecutiveErrors == 3

\* The page size of a source: count, max_records, per_page, h.
PageSize(src) ==
    CASE src = "scopus"   -> 200
      [] src = "springer" -> 100
      [] src = "ieee"     -> 200
      [] src = "openalex" -> 200
      [] src = "dblp"     -> 50

\* start_index = 0, IEEE start_index = 1, OpenAlex page = 1.
FirstIndex(src) == IF src \in {"ieee", "openalex"} THEN 1 ELSE 0

\* Checks of the arguments that let equal years through in every source.
ValidArgumentsAllowEqualYears(src, a) ==
    /\ IsStr(a.query) /\ Len(strip(a.query.str)) # 0
    /\ IsInt(a.start_year) /\ IsInt(a.end_year)
    /\ a.start_year.int <= a.end_year.int

\* The arguments are accepted by the checks at the head of the function:
\* the query is a non-empty str, the years are ints (or None for OpenAlex),
\* start_year < end_year for Scopus and Springer, start_year <= end_year
\* for the others.  The arguments the model does not vary (issn, venue,
\* timeout, max_retries, save_bibtex) pass their checks.
valid_arguments(src, a) ==
    /\ IsStr(a.query) /\ Len(strip(a.query.str)) # 0
    /\ IF src = "openalex"
       THEN /\ a.start_year = None \/ IsInt(a.start_year)
            /\ a.end_year = None \/ IsInt(a.end_year)
            /\ ~(a.start_year # None /\ a.end_year # None
                 /\ a.start_year.int > a.end_year.int)
       ELSE /\ IsInt(a.start_year) /\ IsInt(a.end_year)
            /\ IF src \in {"scopus", "springer"}
               THEN a.start_year.int < a.end_year.int
               ELSE a.start_year.int <= a.end_year.int

\* The locals at the start of the paging: of the run, and of each year in
\* get_dblp_venue.
loop_start(src, l, year) ==
    [l EXCEPT !.start_index = FirstIndex(src), !.retries = l.max_retries,
              !.consecutive_errors = 0, !.year = year, !.done = FALSE,
              !.page_requests = 0, !.errors_since_page = 0]

\* What a session.get of make_api_request meets.
Outcomes == {"ok", "rate_limit", "response_error", "network_error"}

\* make_api_request(url, headers, params, timeout, max_retries) run against
\* the outcomes of its session.get calls, one per call: the number of
\* requests it issues and what it ends with (the response, or the exception
\* it raises).
RECURSIVE make_api_request_loop(_, _, _, _)
make_api_request_loop(outcomes, retries, consecutive_errors, requests) ==
    IF Head(outcomes) = "ok"
    THEN [requests |-> requests + 1, result |-> "response"]
    ELSE IF Head(outcomes) = "rate_limit"
    THEN IF retries - 1 < 0
         THEN [requests |-> requests + 1, result |-> "RateLimitError"]
         ELSE make_api_request_loop(Tail(outcomes), retries - 1,
                                    consecutive_errors, requests + 1)
    ELSE IF consecutive_errors + 1 >= MaxConsecutiveErrors
    THEN [requests |-> requests + 1, result |-> "APIError"]
    ELSE IF retries - 1 < 0
    THEN [requests |-> requests + 1,
          result |-> IF Head(outcomes) = "response_error"
                     THEN "ResponseError" ELSE "RequestException"]
    ELSE make_api_request_loop(Tail(outcomes), retries - 1,
                               consecutive_errors + 1, requests + 1)

make_api_request(outcomes, max_retries) ==
    make_api_request_loop(outcomes, max_retries, 0, 0)

\* One pass of the try block up to the validated data: the requests it
\* issues and what it yields, the data or the exception raised.
\* get_ieee_xplore fetches through make_api_request and validates the
\* response it returns again; the others issue one requests.get (session.get
\* in get_dblp_venue) and validate the response.
attempts(src, max_retries) ==
    IF src = "ieee"
    THEN UNION {IF make_api_request(o, max_retries).result = "response"
                THEN {[requests |-> make_api_request(o, max_retries).requests,
                       result |-> v] : v \in {"data", "ResponseError"}}
                ELSE {make_api_request(o, max_retries)} :
                o \in [1..max_retries + 1 -> Outcomes]}
    ELSE {[requests |-> 1, result |-> v] :
             v \in {"data", "RateLimitError", "ResponseError", "RequestException"}}

\* The run has issued n more requests.
requested(l, n) ==
    [l EXCEPT !.requests = @ + n, !.page_requests = @ + n,
              !.after_last = l.last_fetched]

\* The pages a source may answer with: the number of entries (hits), the
\* total it reports and whether it gives a next cursor.
Responses(src) ==
    [hits : IF src = "dblp" THEN {0, PageSize(src) - 1, PageSize(src)}
            ELSE {0, PageSize(src)},
     total : {0, PageSize(src), PageSize(src) + 1},
     next_cursor : BOOLEAN]

\* The page is the last one by the test of the source, next being the start
\* index after the page.
last_page(src, resp, next) ==
    CASE src \in {"scopus", "springer"} -> next >= resp.total
      [] src = "ieee"     -> next > (resp.total \div 200) + 1
      [] src = "openalex" -> ~resp.next_cursor
      [] src = "dblp"     -> resp.hits < PageSize(src)

\* A page_fetched that never sets done and never leaves a year.
PageFetchedNeverDone(src, l, resp) ==
    [loop |-> [l EXCEPT !.retries = l.max_retries, !.page_requests = 0,
                        !.errors_since_page = 0,
                        !.start_index = @ + resp.hits,
                        !.consecutive_errors = 0],
     left |-> FALSE]

\* The rest of the try block and of the iteration of the outer loop once the
\* data are validated and nothing raises: the locals, and whether the
\* function has left the fetch loop.
page_fetched(src, l, resp) ==
    LET next == CASE src \in {"scopus", "springer"} -> l.start_index + PageSize(src)
                  [] src = "ieee" -> l.start_index + 1
                  [] src = "openalex" ->
                         IF resp.next_cursor THEN l.start_index + 1
                         ELSE l.start_index
                  [] src = "dblp" -> l.start_index + resp.hits
        seen == [l EXCEPT !.retries = l.max_retries, !.page_requests = 0,
                          !.errors_since_page = 0]
    IN  IF src = "dblp"
        THEN IF resp.hits < PageSize(src)
             THEN IF l.year < l.args.end_year.int
                  THEN [loop |-> loop_start(src, [seen EXCEPT !.start_index = next],
                                            l.year + 1),
                        left |-> FALSE]
                  ELSE [loop |-> [seen EXCEPT !.start_index = next,
                                              !.consecutive_errors = 0,
                                              !.done = TRUE],
                        left |-> TRUE]
             ELSE [loop |-> [seen EXCEPT !.start_index = next,
                                         !.consecutive_errors = 0,
                                         !.done = FALSE],
                   left |-> FALSE]
        ELSE IF resp.hits = 0
        THEN [loop |-> [seen EXCEPT !.last_fetched = TRUE], left |-> FALSE]
        ELSE IF last_page(src, resp, next)
        THEN [loop |-> [seen EXCEPT !.start_index = next, !.last_fetched = TRUE],
              left |-> FALSE]
        ELSE [loop |-> [seen EXCEPT !.start_index = next,
                                    !.consecutive_errors = 0],
              left |-> FALSE]

\* An except clause of the retry loop: retries -= 1, the clauses that count
\* add one to consecutive_errors and raise the source's error at
\* max_consecutive_errors, and the clause raises when retries < 0.
except_clause(src, l, counted, error) ==
    LET c == IF counted THEN l.consecutive_errors + 1 ELSE l.consecutive_errors
        after == [l EXCEPT !.retries = @ - 1, !.consecutive_errors = c]
    IN  IF counted /\ c >= MaxConsecutiveErrors
        THEN [loop |-> [after EXCEPT !.breaker = TRUE],
              raised |-> SourceError(src)]
        ELSE IF l.retries - 1 < 0
        THEN [loop |-> after, raised |-> error]
        ELSE [loop |-> after, raised |-> NoError]

\* The record of a page whose entries were appended to all_papers.
PageRecord(l, hits) ==
    [year |-> l.year, start_index |-> l.start_index, hits |-> hits]

\* The arguments of a call: the query and the two years.
Arguments ==
    [query : {Str(<<"q">>), Str(<<>>)},
     start_year : {IntValue(2020), IntValue(2021), Str(<<"2">>), None},
     end_year : {IntValue(2020), IntValue(2021), Str(<<"2">>)}]

InitFetch ==
    /\ source \in Sources
    /\ save_bibtex_arg = TRUE
    /\ all_papers = <<>>
    /\ pc = "called"
    /\ csv_file = NoFile
    /\ bib_file = NoFile
    /\ final_df = NoValue
    /\ raised = NoError
    /\ write_failed = FALSE
    /\ df = <<>>
    /\ tfidf = <<>>
    /\ rd_out = NoValue
    /\ rd_again = NoValue
    /\ key_trace = <<>>
    /\ bib_again = NoValue
    /\ key_args = NoValue
    /\ registry = {}
    /\ key_calls = <<>>
    /\ raw_entry = NoValue
    /\ normalized = NoValue
    /\ venue_arg = NoValue
    /\ processed = <<>>
    /\ \E a \in Arguments, m \in 0..MaxRetries :
         loop = [args |-> a, max_retries |-> m, dir_created |-> FALSE,
                 start_index |-> 0, retries |-> 0, consecutive_errors |-> 0,
                 year |-> 0, done |-> FALSE, requests |-> 0,
                 page_requests |-> 0, after_last |-> FALSE,
                 last_fetched |-> FALSE, errors_since_page |-> 0,
                 breaker |-> FALSE]

fetch_frame ==
    UNCHANGED <<source, save_bibtex_arg, csv_file, bib_file, final_df,
                write_failed, df, tfidf, rd_out, rd_again, key_trace, bib_again,
                key_args, registry, key_calls, raw_entry, normalized, venue_arg,
                processed>>

\* The head of a get_* function: the checks of the arguments, then
\* os.makedirs of the output folder, then the locals of the loop.
CallGet ==
    /\ pc = "called"
    /\ IF ~valid_arguments(source, loop.args)
       THEN /\ pc' = "raised"
            /\ raised' = "ValueError"
            /\ loop' = loop
       ELSE \E made \in BOOLEAN :
              IF made
              THEN /\ pc' = "request"
                   /\ raised' = raised
                   /\ loop' = loop_start(source, [loop EXCEPT !.dir_created = TRUE],
                                         IF source = "dblp"
                                         THEN loop.args.start_year.int ELSE 0)
              ELSE /\ pc' = "raised"
                   /\ raised' = "ValueError"
                   /\ loop' = loop
    /\ all_papers' = all_papers
    /\ fetch_frame

\* The page is fetched and processed without an exception.
PageFetched ==
    /\ pc = "request"
    /\ \E a \in attempts(source, loop.max_retries), resp \in Responses(source) :
         /\ a.result = "data"
         /\ loop.requests + a.requests <= MaxRequests
         /\ loop' = page_fetched(source, requested(loop, a.requests), resp).loop
         /\ pc' = IF page_fetched(source, requested(loop, a.requests), resp).left
                  THEN "collected" ELSE "request"
         /\ all_papers' = IF resp.hits > 0
                          THEN Append(all_papers, PageRecord(loop, resp.hits))
                          ELSE all_papers
    /\ raised' = raised
    /\ fetch_frame

\* except RateLimitError
RateLimited ==
    /\ pc = "request"
    /\ \E a \in attempts(source, loop.max_retries) :
         /\ a.result = "RateLimitError"
         /\ loop.requests + a.requests <= MaxRequests
         /\ loop' = except_clause(source, requested(loop, a.requests), FALSE,
                                  SourceError(source)).loop
         /\ raised' = except_clause(source, requested(loop, a.requests), FALSE,
                                    SourceError(source)).raised
    /\ pc' = IF raised' = NoError THEN "request" ELSE "raised"
    /\ all_papers' = all_papers
    /\ fetch_frame

\* The run has met one more response or network error.
failed(l) == [l EXCEPT !.errors_since_page = @ + 1]

\* except ResponseError
ResponseFailed ==
    /\ pc = "request"
    /\ \E a \in attempts(source, loop.max_retries) :
         /\ a.result = "ResponseError"
         /\ loop.requests + a.requests <= MaxRequests
         /\ loop' = except_clause(source, failed(requested(loop, a.requests)), TRUE,
                                  SourceError(source)).loop
         /\ raised' = except_clause(source, failed(requested(loop, a.requests)), TRUE,
                                    SourceError(source)).raised
    /\ pc' = IF raised' = NoError THEN "request" ELSE "raised"
    /\ all_papers' = all_papers
    /\ fetch_frame

\* except (RequestException, Timeout), which get_scopus, get_springer and
\* get_openalex have; the last retry raises the exception again.
NetworkFailed ==
    /\ pc = "request"
    /\ source \in {"scopus", "springer", "openalex"}
    /\ \E a \in attempts(source, loop.max_retries) :
         /\ a.result = "RequestException"
         /\ loop.requests + a.requests <= MaxRequests
         /\ loop' = except_clause(source, failed(requested(loop, a.requests)), TRUE,
                                  "RequestException").loop
         /\ raised' = except_clause(source, failed(requested(loop, a.requests)), TRUE,
                                    "RequestException").raised
    /\ pc' = IF raised' = NoError THEN "request" ELSE "raised"
    /\ all_papers' = all_papers
    /\ fetch_frame

\* What reaches except Exception: in get_ieee_xplore and get_dblp_venue a
\* network error (and the APIError of make_api_request); in every source a
\* ValueError of int() on the rate-limit header before the entries are
\* looked at; in the sources that parse the total after the loop over the
\* entries, an exception raised there.
Unexpected(src) ==
    {[result |-> "data", network |-> FALSE, appended |-> FALSE]}
    \cup (IF src # "dblp"
          THEN {[result |-> "data", network |-> FALSE, appended |-> TRUE]}
          ELSE {})
    \cup (IF src \in {"ieee", "dblp"}
          THEN {[result |-> "RequestException", network |-> TRUE,
                 appended |-> FALSE]}
          ELSE {})
    \cup (IF src = "ieee"
          THEN {[result |-> "APIError", network |-> TRUE, appended |-> FALSE]}
          ELSE {})

\* except Exception: get_dblp_venue counts it in consecutive_errors;
\* get_ieee_xplore and get_dblp_venue raise their own error at the end, the
\* others raise the exception again.
UnexpectedFailed ==
    /\ pc = "request"
    /\ \E a \in attempts(source, loop.max_retries), u \in Unexpected(source) :
         /\ a.result = u.result
         /\ loop.requests + a.requests <= MaxRequests
         /\ loop' = except_clause(source,
                        IF u.network THEN failed(requested(loop, a.requests))
                        ELSE requested(loop, a.requests),
                        source = "dblp",
                        IF source \in {"ieee", "dblp"} THEN SourceError(source)
                        ELSE "ValueError").loop
         /\ raised' = except_clause(source,
                        IF u.network THEN failed(requested(loop, a.requests))
                        ELSE requested(loop, a.requests),
                        source = "dblp",
                        IF source \in {"ieee", "dblp"} THEN SourceError(source)
                        ELSE "ValueError").raised
         /\ all_papers' = IF u.appended
                          THEN Append(all_papers, PageRecord(loop, PageSize(source)))
                          ELSE all_papers
    /\ pc' = IF raised' = NoError THEN "request" ELSE "raised"
    /\ fetch_frame

NextFetch ==
    \/ CallGet
    \/ PageFetched
    \/ RateLimited
    \/ ResponseFailed
    \/ NetworkFailed
    \/ UnexpectedFailed

SpecFetch == InitFetch /\ [][NextFetch]_vars

(***************************************************************************)
(* Helpers of the properties.                                              *)
(***************************************************************************)
\* str.lower() on the characters of the model's DOI strings.
LowerChar(c) == CASE c = "A" -> "a" [] c = "B" -> "b" [] OTHER -> c

Lower(v) == [i \in DOMAIN v.str |-> LowerChar(v.str[i])]

\* The subsequence of s at the positions P, in increasing order.
SubSeqAt(s, P) ==
    [k \in 1..Cardinality(P) |->
        s[CHOOSE p \in P : Cardinality({q \in P : q < p}) = k - 1]]

\* Number of occurrences of r in s.
Count(s, r) == Cardinality({i \in DOMAIN s : s[i] = r})

\* The rows save_results_to_csv returned.
OutRows == final_df.frame.rows

\* Two records of the input share a DOI, letter case ignored.
DoiCollision ==
    \E i, j \in DOMAIN all_papers :
        /\ i < j
        /\ notna(all_papers[i].doi) /\ notna(all_papers[j].doi)
        /\ Lower(all_papers[i].doi) = Lower(all_papers[j].doi)

(***************************************************************************)
(* Properties of the exact pass (save_results_to_csv).                     *)
(***************************************************************************)
\* C1: of two input records whose DOIs differ only by letter case, the exact
\* pass of save_results_to_csv retains exactly one, the first in input order.
C1_CaseInsensitiveExactDedup ==
    pc = "returned" =>
        \A i, j \in DOMAIN all_papers :
            ( /\ i < j
              /\ notna(all_papers[i].doi) /\ notna(all_papers[j].doi)
              /\ Lower(all_papers[i].doi) = Lower(all_papers[j].doi)
              /\ \A h \in 1..(i - 1) :
                     isna(all_papers[h].doi)
                     \/ Lower(all_papers[h].doi) # Lower(all_papers[i].doi) )
            => /\ Count(OutRows, all_papers[i]) >= 1
               /\ Cardinality({k \in DOMAIN OutRows :
                                  /\ notna(OutRows[k].doi)
                                  /\ Lower(OutRows[k].doi) = Lower(all_papers[i].doi)}) = 1

\* C3: with no two records sharing a DOI and no two titles alike (all titles
\* pairwise different), the frame save_results_to_csv returns is the input
\* list, record for record and in the same order.
C3_DedupNoOpKeepsOrder ==
    ( /\ pc = "returned"
      /\ ~DoiCollision
      /\ \A i, j \in DOMAIN all_papers :
             i # j => all_papers[i].title # all_papers[j].title )
    => OutRows = all_papers

\* C4: among the records with a DOI, a record is dropped exactly when an
\* earlier record has the same DOI value; the survivors are the earliest
\* occurrences, in their input order.
C4_FirstSeenWins ==
    pc = "returned" =>
        SelectSeq(OutRows, LAMBDA r : notna(r.doi))
        = SubSeqAt(all_papers,
                   {i \in DOMAIN all_papers :
                       /\ notna(all_papers[i].doi)
                       /\ \A j \in 1..(i - 1) :
                              all_papers[j].doi # all_papers[i].doi})

\* C4 witness: a DOI occurs twice with different titles, a record with
\* another DOI follows, and the call has returned.
C4_Witness ==
    /\ pc = "returned"
    /\ Len(all_papers) = 3
    /\ all_papers[1].doi = DoiOther /\ all_papers[2].doi = DoiOther
    /\ all_papers[1].title # all_papers[2].title
    /\ all_papers[3].doi = DoiUpper
    /\ OutRows = <<all_papers[1], all_papers[3]>>

\* C5: every record without DOI is in the output as many times as in the
\* input, whatever the titles and the records with DOI.
C5_NoDoiNeverDropped ==
    pc = "returned" =>
        \A p \in Paper :
            isna(p.doi) => Count(OutRows, p) = Count(all_papers, p)

\* C5 witness: two equal records without DOI next to a duplicated DOI; the
\* call has returned and both records without DOI are in the output.
C5_Witness ==
    /\ pc = "returned"
    /\ Len(all_papers) = 3
    /\ isna(all_papers[1].doi)
    /\ all_papers[3] = all_papers[1]
    /\ notna(all_papers[2].doi)
    /\ Count(OutRows, all_papers[1]) = 2

\* C10: save_results_to_csv called with an empty list (and a filesystem that
\* accepts the write) does not raise and writes a file with no data row.
C10_EmptyInputTolerated ==
    (pc # "call" /\ all_papers = <<>> /\ ~write_failed)
    => /\ raised = NoError
       /\ csv_file.written
       /\ csv_file.rows = <<>>

(***************************************************************************)
(* Properties of the similarity pass (remove_duplicates).                  *)
(***************************************************************************)
\* Similarity of rows i and j of df, in hundredths.
DfSim(i, j) == tfidf[<<df.rows[i].title, df.rows[j].title>>]

\* No pair of rows of df is above the threshold 0.8.
NoPairAbove ==
    \A i, j \in DOMAIN df.rows : i < j => ~(DfSim(i, j) > 80)

\* C7: remove_duplicates removes row j exactly when some earlier row i
\* (removed or not) has similarity strictly above 0.8 with it; the other
\* rows are returned in their order.
C7_SimilarityRemovalRule ==
    rd_out.set =>
        rd_out.frame.rows
        = SubSeqAt(df.rows,
                   {j \in DOMAIN df.rows :
                       ~\E i \in 1..(j - 1) : DfSim(i, j) > 80})

\* C7 witness: three rows without DOI, the second 0.85 similar to the first
\* and the third exactly 0.8 similar to the first: only the second is lost.
C7_Witness ==
    /\ pc = "returned"
    /\ Len(df.rows) = 3
    /\ \A i \in 1..3 : isna(df.rows[i].doi)
    /\ DfSim(1, 2) = 85 /\ DfSim(1, 3) = 80 /\ DfSim(2, 3) = 50
    /\ rd_out.frame.rows = <<df.rows[1], df.rows[3]>>

\* C8: for three rows A, B, C with sim(A,B) > 0.8, sim(B,C) > 0.8 and
\* sim(A,C) < 0.8, remove_duplicates returns A alone.
C8_NotTransitiveClosureAware ==
    ( /\ rd_out.set
      /\ Len(df.rows) = 3
      /\ DfSim(1, 2) > 80 /\ DfSim(2, 3) > 80 /\ DfSim(1, 3) < 80 )
    => rd_out.frame.rows = <<df.rows[1]>>

\* C8 witness: such a chain A, B, C has been deduplicated to A.
C8_Witness ==
    /\ pc = "returned"
    /\ Len(df.rows) = 3
    /\ DfSim(1, 2) = 85 /\ DfSim(2, 3) = 85 /\ DfSim(1, 3) = 50
    /\ rd_out.frame.rows = <<df.rows[1]>>

Records(s) == {s[i] : i \in DOMAIN s}

\* C2: both sinks of a run hold the same record set: the records written as
\* BibTeX entries are the rows written to the CSV file.
C2_SinksShareRecordSet ==
    bib_file.written =>
        /\ csv_file.written
        /\ Records(bib_file.entries) = Records(csv_file.rows)

\* C6: the rows a run exports are the result of the title-similarity pass
\* (remove_duplicates) applied to the survivors of the exact DOI pass, for
\* the similarity the vectorizer yields on their titles.
C6_BothPassesBeforeExport ==
    csv_file.written =>
        \E sim \in TitleSims :
            LET r == remove_duplicates(DedupByDoi(all_papers), sim)
            IN  r.raised # NoError \/ csv_file.rows = r.value.frame.rows

(***************************************************************************)
(* Properties of save_bibtex and of the citation keys.                     *)
(***************************************************************************)
\* The keys of the entries of a file, read from the text as a BibTeX reader
\* does: what stands between "@article{" and the first "," or line end.
entry_key(text) ==
    LET rest == SubSeq(text, 10, Len(text))
        stops == {i \in DOMAIN rest : rest[i] \in {",", "\n"}}
    IN  SubSeq(rest, 1, (CHOOSE i \in stops : \A j \in stops : i <= j) - 1)

\* C11: save_bibtex called with an empty list (the file can be written) does
\* not raise and writes the header with a total of 0 and no entry.
C11_EmptyListWritesHeaderOnly ==
    (pc # "call" /\ all_papers = <<>> /\ ~write_failed) =>
        /\ raised = NoError
        /\ bib_file.written
        /\ bib_file.total = 0
        /\ bib_file.text = <<>>
        /\ bib_file.entries = <<>>

C11_Witness ==
    pc = "returned" /\ all_papers = <<>> /\ ~write_failed /\ bib_file.written

\* The base key of a paper, as paper_to_bibtex hands its fields over.
PaperBaseKey(p) ==
    base_key(GetOr(p, "title", Str(<<>>)), GetOr(p, "authors", Str(<<>>)),
             Get(p, "year"))

\* The key made of a base key and the suffix n, within the length limit.
Suffixed(base, n) ==
    IF Len(base \o str_of_int(n)) <= MaxKeyLength
    THEN base \o str_of_int(n)
    ELSE SubSeq(base, 1, MaxKeyLength - Len(str_of_int(n))) \o str_of_int(n)

\* The collision policy: the base key when it is free, else the base key
\* with the least suffix n >= 1 that gives a free key.
FollowsPolicy(k, base, reg) ==
    IF base \notin reg THEN k = base
    ELSE \E n \in 1..(Cardinality(reg) + 1) :
            /\ k = Suffixed(base, n)
            /\ k \notin reg
            /\ \A m \in 1..(n - 1) : Suffixed(base, m) \in reg

\* C12: the keys of the entries written by one save_bibtex call are pairwise
\* distinct, also for papers all of whose fields are empty or None.
C12_KeysPairwiseDistinct ==
    pc = "returned" =>
        \A i, j \in DOMAIN bib_file.text :
            i # j => entry_key(bib_file.text[i]) # entry_key(bib_file.text[j])

\* C13: every key of an export follows the collision policy on the keys
\* issued before it in this export, and of two consecutive papers with the
\* same base key, the first receiving base while base1 is not issued yet,
\* the second receives base1.
C13_CollisionPolicy ==
    pc = "returned" =>
        \A i \in DOMAIN key_trace :
            LET base == PaperBaseKey(all_papers[i])
                issued == {key_trace[j].key : j \in 1..(i - 1)}
            IN  /\ FollowsPolicy(key_trace[i].key, base, issued)
                /\ (/\ i > 1
                    /\ PaperBaseKey(all_papers[i - 1]) = base
                    /\ key_trace[i - 1].key = base
                    /\ Suffixed(base, 1) \notin issued)
                   => key_trace[i].key = Suffixed(base, 1)

\* C14: every key generation of an export adds the key it returned to the
\* registry: the registry after it is the registry before it plus that key,
\* one key more.
C14_RegistersResultOnce ==
    pc = "returned" =>
        \A i \in DOMAIN key_trace :
            /\ key_trace[i].after = key_trace[i].before \cup {key_trace[i].key}
            /\ Cardinality(key_trace[i].after) = Cardinality(key_trace[i].before) + 1

\* C15: in one export the first paper with base key K receives K itself and
\* every later paper with base key K receives another, suffixed key.
C15_FirstPaperGetsBaseKey ==
    pc = "returned" =>
        \A i \in DOMAIN key_trace :
            LET K == PaperBaseKey(all_papers[i])
                first == \A j \in 1..(i - 1) : PaperBaseKey(all_papers[j]) # K
            IN  IF first THEN key_trace[i].key = K
                ELSE /\ key_trace[i].key # K
                     /\ \E n \in 1..i : key_trace[i].key = Suffixed(K, n)

C16_KeyLengthWithinLimit ==
    \A c \in DOMAIN key_calls :
        Len(key_calls[c].key) >= 1 /\ Len(key_calls[c].key) <= MaxKeyLength

\* A key of full length whose base was cut for a suffix of two digits.
C16_Witness ==
    \E c \in DOMAIN key_calls :
        LET k == key_calls[c].key
        IN  /\ Len(k) = MaxKeyLength
            /\ key_args.title = LongTitle
            /\ SubSeq(k, Len(k) - 1, Len(k)) = <<"1", "0">>
            /\ Cardinality(key_calls[c].existing_keys) >= 10

\* C17: every key clean_bibtex_key returns consists of letters and digits
\* only: no underscore, punctuation or whitespace.
C17_KeyIsAlphanumeric ==
    \A c \in DOMAIN key_calls :
        \A i \in DOMAIN key_calls[c].key :
            IsLetter(key_calls[c].key[i]) \/ IsDigit(key_calls[c].key[i])

TitleFields(src) ==
    IF src = "scopus" THEN {"dc:title"}
    ELSE IF src = "validate_paper_entry" THEN {"title", "dc:title"}
    ELSE {"title"}

\* The field is missing, null, empty or not a string.
BadTitleField(fields, name) ==
    \/ name \notin DOMAIN fields
    \/ fields[name] = None
    \/ fields[name] = Str(<<>>)
    \/ "str" \notin DOMAIN fields[name]

\* C20: for every normalizer and every mapping entry whose title field is
\* missing, null, empty or not a string, the paper returned has the title
\* "Unknown Title".
C20_BadTitleBecomesUnknownTitle ==
    (/\ pc = "returned"
     /\ normalized.set
     /\ raw_entry.mapping
     /\ DOMAIN normalized.paper # {}
     /\ \A name \in TitleFields(source) : BadTitleField(raw_entry.fields, name))
    => normalized.paper.title = UnknownTitle

C20_Witness ==
    /\ pc = "returned"
    /\ normalized.set
    /\ source = "dblp"
    /\ raw_entry.mapping
    /\ "title" \in DOMAIN raw_entry.fields
    /\ raw_entry.fields["title"] = IntValue(7)
    /\ normalized.paper.title = UnknownTitle

\* The raw value of a field of the entry, None when it is absent.
RawField(field) == Get(raw_entry.fields, RawKey(source, field))

\* The call returned a record for a mapping.
RecordReturned ==
    /\ pc = "returned"
    /\ normalized.set
    /\ raw_entry.mapping
    /\ raised = NoError
    /\ DOMAIN normalized.paper # {}

\* C21: for every normalizer and every raw entry that is a mapping, a title
\* of blanks only included, the title of the record is a non-empty string.
C21_TitleNeverEmpty ==
    RecordReturned =>
        /\ IsStr(normalized.paper.title)
        /\ normalized.paper.title.str # <<>>

\* C22: the year of a record is None or an integer from 1900 to 2030, and
\* for an entry whose year is out of the range or is no number the call
\* does not raise and gives the year None.
C22_YearNoneOrInRange ==
    /\ RecordReturned =>
           \/ normalized.paper.year = None
           \/ /\ IsInt(normalized.paper.year)
              /\ normalized.paper.year.int >= 1900
              /\ normalized.paper.year.int <= 2030
    /\ (/\ pc = "returned"
        /\ raw_entry.mapping
        /\ RawField("year") \in {Year1899, Year2031, YearNoNumber})
       => /\ raised = NoError
          /\ normalized.paper # EmptyDict => normalized.paper.year = None

\* C23: in each of the five sources a year field holding "2021-05-01" gives
\* the year 2021, as the plain "2021" does.
C23_YearFromFirstSegment ==
    (/\ RecordReturned
     /\ source \in Sources
     /\ RawField("year") \in {DateIn2021, Year2021})
    => normalized.paper.year = IntValue(2021)

\* The entry was left out by the venue filter of get_dblp_venue: its
\* normalized venue is a str that does not contain the venue argument.
LeftOutByVenueFilter(p) ==
    /\ source = "dblp"
    /\ p.paper # EmptyDict
    /\ IsStr(p.paper.publicationName)
    /\ ~venue_matches(venue_arg.str, p.paper.publicationName.str)

\* C24: normalization never raises and never loses the record: every entry
\* of a page that is a mapping, whatever the types of its fields, gives a
\* non-empty record and no exception, and the record is appended to
\* all_papers (unless the venue filter of DBLP leaves it out).
C24_MappingEntryAlwaysAppended ==
    \A i \in DOMAIN processed :
        processed[i].entry.mapping
        => /\ processed[i].raised = NoError
           /\ processed[i].paper # EmptyDict
           /\ processed[i].appended \/ LeftOutByVenueFilter(processed[i])

\* The papers appended while the page was processed, in order.
RECURSIVE AppendedPapers(_)
AppendedPapers(steps) ==
    IF steps = <<>> THEN <<>>
    ELSE IF Head(steps).appended
    THEN <<Head(steps).paper>> \o AppendedPapers(Tail(steps))
    ELSE AppendedPapers(Tail(steps))

\* C25: an entry that is not a mapping gives the empty record, is never
\* appended to all_papers and reaches neither file; the entries processed
\* after it are still normalized and appended: all_papers is exactly the
\* papers of the appended entries, none of them empty, and the rows of the
\* CSV file and the entries of the BibTeX file come from them.
C25_NonMappingEntrySkipped ==
    /\ \A i \in DOMAIN processed :
           ~processed[i].entry.mapping
           => /\ processed[i].paper = EmptyDict
              /\ processed[i].raised = NoError
              /\ ~processed[i].appended
    /\ all_papers = AppendedPapers(processed)
    /\ \A i \in DOMAIN all_papers : all_papers[i] # EmptyDict
    /\ csv_file.written
       => \A i \in DOMAIN csv_file.rows :
              \E j \in DOMAIN all_papers : csv_file.rows[i] = all_papers[j]
    /\ bib_file.written => bib_file.total = Len(all_papers)

\* A page whose first entry is not a mapping and whose second is well
\* formed: the second is appended and written to both files.
C25_Witness ==
    /\ Len(processed) = 2
    /\ processed[1].entry = NonMapping
    /\ processed[2].entry = GoodEntry(source)
    /\ processed[2].appended
    /\ Len(all_papers) = 1
    /\ csv_file.written /\ Len(csv_file.rows) = 1
    /\ bib_file.written /\ bib_file.total = 1

\* C26: a failure of a sink is fatal: when the CSV or the BibTeX file cannot
\* be written, save_results_to_csv and save_bibtex raise APIError, and the
\* get_* function ends with its API error and returns no DataFrame.
C26_SinkFailureIsFatal ==
    /\ write_failed => pc = "raised" /\ raised = SourceError(source)
    /\ pc = "returned" => ~write_failed /\ raised = NoError
    /\ all_papers # <<>>
       => /\ save_results_to_csv(all_papers, FALSE).raised = "APIError"
          /\ save_bibtex(all_papers, FALSE).raised = "APIError"

\* get_dblp_venue has written the CSV file and failed on the BibTeX file.
C26_Witness ==
    /\ write_failed
    /\ pc = "raised"
    /\ source = "dblp"
    /\ csv_file.written
    /\ bib_file = NoFile

\* The DOI values the rows of the CSV file carry: the text of the doi cells
\* that are not empty.
WrittenDois ==
    {csv_cell(csv_file.rows[i].doi) : i \in DOMAIN csv_file.rows} \ {<<>>}

Occurrences(text, pattern) ==
    Cardinality({i \in 0..(Len(text) - Len(pattern)) :
                    SubSeq(text, i + 1, i + Len(pattern)) = pattern})

\* C28: the file save_bibtex has written holds one entry per paper of the
\* list, in the order of the list: the i-th entry is the entry of the i-th
\* paper and opens exactly once; the count in the header is the number of
\* entries written.
C28_OneEntryPerPaperInOrder ==
    (pc = "returned" /\ bib_file.written)
    => /\ Len(bib_file.text) = Len(all_papers)
       /\ bib_file.total = Len(bib_file.text)
       /\ \A i \in DOMAIN all_papers :
              /\ bib_file.text[i]
                     = paper_to_bibtex(all_papers[i], key_trace[i].before)
              /\ Occurrences(bib_file.text[i], ArticleOpen) = 1
              /\ find(bib_file.text[i], ArticleOpen, 0) = 0

\* Two different papers, the second without any field, have been written.
C28_Witness ==
    /\ pc = "returned"
    /\ bib_file.written
    /\ Len(all_papers) = 2
    /\ all_papers[1].title # Str(<<>>)
    /\ all_papers[2].title = Str(<<>>)
    /\ all_papers[2].doi = None
    /\ bib_file.total = 2
    /\ Len(bib_file.text) = 2

\* The fields paper_to_bibtex writes for a paper.
WrittenFields(p) ==
    {f \in {"title", "authors", "year", "publicationName", "doi", "url"} :
        Truthy(Get(p, f))}
    \cup (IF GetOr(p, "citedby-count", IntValue(0)).int > 0
          THEN {"citedby-count"} ELSE {})

\* The braces of a text that no backslash stands before.
UnescapedBraces(text) ==
    {i \in DOMAIN text : /\ text[i] \in {"{", "}"}
                         /\ i = 1 \/ text[i - 1] # "\\"}

\* C29: in every entry paper_to_bibtex emits, the only braces without a
\* backslash before them are the opening and the closing brace of the entry
\* and the two delimiters of each field: every brace inside the value of a
\* field (title, author, journal, doi, url) is backslash-prefixed.
C29_BracesInValuesEscaped ==
    (pc = "returned" /\ bib_file.written)
    => \A i \in DOMAIN bib_file.text :
           Cardinality(UnescapedBraces(bib_file.text[i]))
               = 2 + 2 * Cardinality(WrittenFields(all_papers[i]))

\* C30: the stripping of the trailing separator removes only the comma
\* after the last field: the comma after the key stays, also for a paper
\* that yields no field, so that the key is the text between "@article{"
\* and the first comma; every field but the last keeps its comma.
C30_OnlyLastSeparatorStripped ==
    (pc = "returned" /\ bib_file.written)
    => \A i \in DOMAIN bib_file.text :
           LET e == bib_file.text[i]
               key == key_trace[i].key
               key_end == find(e, <<",">>, 9)
           IN  /\ key_end # -1
               /\ SubSeq(e, 10, key_end) = key
               /\ Occurrences(e, <<",", "\n">>)
                      = Cardinality(WrittenFields(all_papers[i]))
               /\ Occurrences(e, <<",", "\n", "}", "\n">>) = 0

\* C31: the exporter only reads the papers: a step of save_results_to_csv or
\* save_bibtex (the steps that move pc) leaves all_papers as it was, the same
\* papers in the same order with the same fields.
C31_ExporterLeavesPapersUnchanged ==
    [][pc' # pc => all_papers' = all_papers]_vars

\* Both files are written and the list still holds the two papers with the
\* same DOI, of which the CSV file keeps one.
C31_Witness ==
    /\ pc = "returned"
    /\ csv_file.written
    /\ bib_file.written
    /\ Len(all_papers) = 2
    /\ all_papers[1].doi = all_papers[2].doi
    /\ Len(csv_file.rows) = 1
    /\ bib_file.total = 2

\* The entry carries no DOI value: key missing, null or the empty string.
NoDoiValue(entry) ==
    /\ entry.mapping
    /\ Get(entry.fields, RawKey(source, "doi")) \in {None, DoiEmpty}

\* C38: an empty DOI counts as no DOI: every record normalized from an entry
\* without a DOI value (key missing, null, empty string) and appended is
\* retained by save_results_to_csv, so the written rows without a DOI value
\* are as many as those records; no two of them are merged.
C38_EmptyDoiIsNoDoi ==
    csv_file.written
    => Cardinality({i \in DOMAIN processed :
                       processed[i].appended /\ NoDoiValue(processed[i].entry)})
       = Cardinality({i \in DOMAIN csv_file.rows :
                         csv_file.rows[i].doi \in {None, DoiEmpty}})

\* The sources whose fetch loop is not a loop over the years.
PagedSources == {"scopus", "springer", "ieee", "openalex"}

\* C32: pagination reaches 'done': in get_scopus, get_springer,
\* get_openalex and get_ieee_xplore, once a page that is the last one (no
\* entries, start index at or past the total, no next cursor) was fetched
\* without error, the function issues no further request.
C32_NoRequestAfterLastPage ==
    source \in PagedSources => ~loop.after_last

\* The number of hits of the page a step has fetched: the page is in
\* all_papers when it has hits.
HitsFetched ==
    IF Len(all_papers') > Len(all_papers)
    THEN all_papers'[Len(all_papers')].hits ELSE 0

\* The step fetches a page without error.
PageFetchedStep ==
    /\ pc = "request"
    /\ loop'.requests > loop.requests
    /\ loop'.page_requests = 0

\* C33: get_dblp_venue terminates per year: a fetched page with fewer than
\* 50 hits ends the paging of its year, the loop goes on with the next year
\* from start index 0 and leaves the fetch loop after the last year; a page
\* with 50 hits keeps the year, and the start index grows by the hits of the
\* page; the loop never goes back to a year.
C33_DblpStopsOnShortPage ==
    [][source = "dblp" =>
         /\ loop'.year >= loop.year
         /\ PageFetchedStep =>
              IF HitsFetched < PageSize("dblp")
              THEN IF loop.year < loop.args.end_year.int
                   THEN /\ pc' = "request"
                        /\ loop'.year = loop.year + 1
                        /\ loop'.start_index = 0
                   ELSE /\ pc' = "collected"
                        /\ loop'.start_index = loop.start_index + HitsFetched
              ELSE /\ pc' = "request"
                   /\ loop'.year = loop.year
                   /\ loop'.start_index = loop.start_index + HitsFetched]_vars

\* get_dblp_venue has left the fetch loop after two years: a page of 50 hits
\* and a short page from start index 50 in the first, a short page in the
\* second.
C33_Witness ==
    /\ source = "dblp"
    /\ pc = "collected"
    /\ Len(all_papers) = 3
    /\ all_papers[1] = [year |-> 2020, start_index |-> 0, hits |-> 50]
    /\ all_papers[2] = [year |-> 2020, start_index |-> 50, hits |-> 49]
    /\ all_papers[3] = [year |-> 2021, start_index |-> 0, hits |-> 49]
    /\ loop.requests = 3

\* C34: retries are bounded by max_retries: in every source the requests
\* issued for one page, until the page is fetched or the call fails, are at
\* most max_retries + 1.
C34_RetriesBounded ==
    pc # "called" => loop.page_requests <= loop.max_retries + 1

\* The sources the claim of the circuit breaker names.
BreakerSources == {"scopus", "springer", "openalex", "dblp"}

\* C35: consecutive-error circuit breaker: with three response or network
\* errors and no page fetched between them the call has failed with the
\* source's API error, and the breaker has fired only with three such errors
\* since the last page fetched.
C35_CircuitBreaker ==
    (pc # "called" /\ source \in BreakerSources)
    => /\ loop.errors_since_page >= MaxConsecutiveErrors
          => (pc = "raised" /\ raised = SourceError(source))
       /\ loop.breaker => loop.errors_since_page >= MaxConsecutiveErrors

\* C36: a retried page is never accumulated twice: no page (year and start
\* index) has its records in all_papers more than once.
C36_PageAppendedOnce ==
    \A i, j \in DOMAIN all_papers :
        (i # j) =>
            \/ all_papers[i].year # all_papers[j].year
            \/ all_papers[i].start_index # all_papers[j].start_index

\* An invalid argument: the query empty, a year that is not an integer (None
\* is the default of get_openalex for a year that is not given), start_year
\* after end_year, and the two equal for Scopus and Springer.
InvalidArgument(src, a) ==
    \/ a.query = Str(<<>>)
    \/ ~IsInt(a.start_year) /\ ~(src = "openalex" /\ a.start_year = None)
    \/ ~IsInt(a.end_year) /\ ~(src = "openalex" /\ a.end_year = None)
    \/ /\ IsInt(a.start_year) /\ IsInt(a.end_year)
       /\ \/ a.start_year.int > a.end_year.int
          \/ src \in {"scopus", "springer"} /\ a.start_year.int = a.end_year.int

\* C37: input validation precedes every side effect: a call with an invalid
\* argument has raised ValueError with no output folder created, no request
\* issued and no file written.
C37_ValidationBeforeEffects ==
    (pc # "called" /\ InvalidArgument(source, loop.args))
    => /\ pc = "raised"
       /\ raised = "ValueError"
       /\ ~loop.dir_created
       /\ loop.requests = 0
       /\ csv_file = NoFile
       /\ bib_file = NoFile

\* get_scopus called with start_year equal to end_year has raised.
C37_Witness ==
    /\ source = "scopus"
    /\ pc = "raised"
    /\ raised = "ValueError"
    /\ loop.args.query = Str(<<"q">>)
    /\ loop.args.start_year = IntValue(2020)
    /\ loop.args.end_year = IntValue(2020)
    /\ ~loop.dir_created

=============================================================================
